---------------------------- MODULE Spec2Model ----------------------------
(***************************************************************************)
(* Model of the POI canonicalisation / indexing engine of the repository:  *)
(*   - src/prep_transport_poi.py : name keys, batch build, POIIndex queries *)
(*   - src/run_server.py         : StopsIndexer and the Flask handlers      *)
(*                                                                          *)
(* Text is modelled as a sequence of characters; a character is one of the  *)
(* short codes listed under "Characters" below.                             *)
(***************************************************************************)
EXTENDS Integers, Sequences, FiniteSets, TLC

(***************************************************************************)
(* Characters.  Codes stand for the code points the source treats apart:   *)
(*   "a" "b"  lower-case letters          "A"   upper-case letter           *)
(*   "FA"     U+FF21 full-width A         "SP"  U+0020 space                *)
(*   "ISP"    U+3000 ideographic space    "LP"  "(" (one of ()[]{}<>"')     *)
(*   "FLP"    U+FF08 full-width "("       "ZB"  U+300C (one of the brackets *)
(*                                              NFKC leaves alone)          *)
(*   "EKI" 駅  "TEI" 停  "RYU" 留  "JO" 所  "BA" バ  "SU" ス                *)
(***************************************************************************)
Chars == {"a", "b", "A", "FA", "SP", "ISP", "LP", "FLP", "ZB",
          "EKI", "TEI", "RYU", "JO", "BA", "SU"}

\* SUFFIXES_FOR_KEY = ["駅", "停留所", "バス停"]
SUFFIXES_FOR_KEY == << <<"EKI">>, <<"TEI", "RYU", "JO">>, <<"BA", "SU", "TEI">> >>

\* _ZEN_BRACKETS, as far as the alphabet has them (after NFKC only U+300C is left)
ZEN_BRACKETS == {"FLP", "ZB"}

\* the characters of the second translate() call: ()[]{}<>"'
ASCII_BRACKETS == {"LP"}

\* unicodedata.normalize("NFKC", .) on one character
NFKC(c) == CASE c = "FA"  -> "A"
             [] c = "ISP" -> "SP"
             [] c = "FLP" -> "LP"
             [] OTHER     -> c

\* str.lower() on one character
LowerChar(c) == IF c = "A" THEN "a" ELSE c

\* what \s and 　 match, and what str.strip() removes
IsSpace(c) == c \in {"SP", "ISP"}

MapSeq(s, Op(_)) == [i \in 1..Len(s) |-> Op(s[i])]

Lower(s) == MapSeq(s, LowerChar)

RECURSIVE FilterOut(_, _)
FilterOut(s, drop) ==
    IF s = <<>> THEN <<>>
    ELSE IF Head(s) \in drop THEN FilterOut(Tail(s), drop)
         ELSE <<Head(s)>> \o FilterOut(Tail(s), drop)

\* str.strip(): drop leading and trailing whitespace
Strip(s) ==
    LET idx == {i \in 1..Len(s) : ~IsSpace(s[i])}
        Min(S) == CHOOSE x \in S : \A y \in S : x <= y
        Max(S) == CHOOSE x \in S : \A y \in S : x >= y
    IN IF idx = {} THEN <<>> ELSE SubSeq(s, Min(idx), Max(idx))

\* re.sub(r"[\s　]+", " ", s): every run of whitespace becomes one space
RECURSIVE CollapseSpaces(_)
CollapseSpaces(s) ==
    IF s = <<>> THEN <<>>
    ELSE IF IsSpace(Head(s))
         THEN IF Len(s) > 1 /\ IsSpace(s[2])
              THEN CollapseSpaces(Tail(s))
              ELSE <<"SP">> \o CollapseSpaces(Tail(s))
         ELSE <<Head(s)>> \o CollapseSpaces(Tail(s))

\* normalize_text: NFKC, strip, collapse whitespace, then delete the brackets
normalize_text(s) ==
    FilterOut(FilterOut(CollapseSpaces(Strip(MapSeq(s, NFKC))), ZEN_BRACKETS),
              ASCII_BRACKETS)

\* str.endswith
EndsWith(s, suf) ==
    /\ Len(suf) <= Len(s)
    /\ SubSeq(s, Len(s) - Len(suf) + 1, Len(s)) = suf

\* the loop of build_key: the first suffix of the list that matches is cut, once
StripSuffix(base) ==
    LET hits == {i \in 1..Len(SUFFIXES_FOR_KEY) : EndsWith(base, SUFFIXES_FOR_KEY[i])}
    IN IF hits = {} THEN base
       ELSE LET i == CHOOSE j \in hits : \A h \in hits : j <= h
            IN SubSeq(base, 1, Len(base) - Len(SUFFIXES_FOR_KEY[i]))

build_key(name) == Lower(StripSuffix(normalize_text(name)))

(***************************************************************************)
(* Batch build (prep_transport_poi.py): input resolution, canonicalisation *)
(* and the persisted tables.                                               *)
(*                                                                         *)
(* A raw record is what geopandas hands over for one feature: its display  *)
(* name and its point, already in WGS84.  Coordinates are integers in      *)
(* thousandths of a degree, relative to a common origin.                   *)
(***************************************************************************)
Raw(name, lat, lon) == [name |-> name, lat |-> lat, lon |-> lon]

\* one file of the file system: its extension, whether gpd.read_file succeeds,
\* the features it holds, and whether guess_name_column finds a name column
\* among its columns
Entry(ext, readable, recs) ==
    [ext |-> ext, readable |-> readable, recs |-> recs, named |-> TRUE]

\* a readable file none of whose columns is taken for the name
NamelessEntry(ext, recs) ==
    [ext |-> ext, readable |-> TRUE, recs |-> recs, named |-> FALSE]

\* SUPPORTED_VECTORS = (".gml", ".gpkg", ".geojson", ".json", ".shp")
SUPPORTED_VECTORS == {".gml", ".gpkg", ".geojson", ".json", ".shp"}

FilterSupported(entries) == SelectSeq(entries, LAMBDA e : e.ext \in SUPPORTED_VECTORS)

\* extract_gml_from_zip: the members whose name ends with ".gml", in archive order
extract_gml_from_zip(members) == SelectSeq(members, LAMBDA e : e.ext = ".gml")

\* collect_inputs(spec): the paths of one specifier, or the SystemExit it raises.
\* A specifier is [type, entries, members]: type "glob" (the pattern holds * or ?,
\* entries are the matches), "file" (entries holds the one existing file; members
\* are the members of the archive when it is a .zip), "dir" (entries are the files
\* below it) or "missing" (no such path).
collect_inputs(spec) ==
    CASE spec.type = "glob" ->
           [ok |-> TRUE, err |-> "", paths |-> FilterSupported(spec.entries)]
      [] spec.type = "file" ->
           IF spec.entries[1].ext = ".zip"
           THEN [ok |-> TRUE, err |-> "", paths |-> extract_gml_from_zip(spec.members)]
           ELSE IF spec.entries[1].ext \in SUPPORTED_VECTORS
                THEN [ok |-> TRUE, err |-> "", paths |-> spec.entries]
                ELSE [ok |-> FALSE, err |-> "unsupported", paths |-> <<>>]
      [] spec.type = "dir" ->
           [ok |-> TRUE, err |-> "", paths |-> FilterSupported(spec.entries)]
      [] OTHER ->
           [ok |-> FALSE, err |-> "missing", paths |-> <<>>]

\* the columns drop_duplicates compares
DedupKey(row) == <<row.kind, row.name_key, row.lat, row.lon>>

\* DataFrame.drop_duplicates(subset=[...]): the first row of every key is kept
drop_duplicates(rows) ==
    LET keep == {i \in 1..Len(rows) :
                    \A j \in 1..(i - 1) : DedupKey(rows[j]) # DedupKey(rows[i])}
        RECURSIVE Pick(_)
        Pick(i) == IF i > Len(rows) THEN <<>>
                   ELSE IF i \in keep THEN <<rows[i]>> \o Pick(i + 1)
                        ELSE Pick(i + 1)
    IN Pick(1)

\* canonicalize(gdf, kind) for a dataset whose name column is found: one row per
\* feature (id = its position in the file), the name key, then the dedup
canonicalize(recs, kind) ==
    drop_duplicates([i \in 1..Len(recs) |->
        [id       |-> i - 1,
         kind     |-> kind,
         name     |-> recs[i].name,
         lat      |-> recs[i].lat,
         lon      |-> recs[i].lon,
         name_key |-> build_key(recs[i].name)]])

\* pd.concat(frames, ignore_index=True)
RECURSIVE Concat(_)
Concat(frames) == IF frames = <<>> THEN <<>> ELSE Head(frames) \o Concat(Tail(frames))

OfKind(rows, kind) == SelectSeq(rows, LAMBDA r : r.kind = kind)

\* dict.setdefault(k, []).append(i) over enumerate(all_df["name_key"]): an
\* insertion-ordered dict, held as a sequence of [key, idxs]; positions count
\* from 0
KeysInOrder(rows) ==
    LET first == {i \in 1..Len(rows) :
                    \A j \in 1..(i - 1) : rows[j].name_key # rows[i].name_key}
        RECURSIVE Pick(_)
        Pick(i) == IF i > Len(rows) THEN <<>>
                   ELSE IF i \in first THEN <<rows[i].name_key>> \o Pick(i + 1)
                        ELSE Pick(i + 1)
    IN Pick(1)

PositionsOf(rows, key) ==
    LET RECURSIVE Pick(_)
        Pick(i) == IF i > Len(rows) THEN <<>>
                   ELSE IF rows[i].name_key = key THEN <<i - 1>> \o Pick(i + 1)
                        ELSE Pick(i + 1)
    IN Pick(1)

\* the name index with positions counted from 1 (enumerate(..., 1))
PositionsFromOne(rows, key) ==
    [i \in 1..Len(PositionsOf(rows, key)) |-> PositionsOf(rows, key)[i] + 1]

name_to_idxs_from_one(rows) ==
    LET ks == KeysInOrder(rows)
    IN [n \in 1..Len(ks) |-> [key |-> ks[n], idxs |-> PositionsFromOne(rows, ks[n])]]

\* a name index that keeps the first position of every key only
name_to_idxs_first(rows) ==
    LET ks == KeysInOrder(rows)
    IN [n \in 1..Len(ks) |-> [key |-> ks[n], idxs |-> <<PositionsOf(rows, ks[n])[1]>>]]

name_to_idxs(rows) ==
    LET ks == KeysInOrder(rows)
    IN [n \in 1..Len(ks) |-> [key |-> ks[n], idxs |-> PositionsOf(rows, ks[n])]]

(***************************************************************************)
(* POIIndex: the loaded store and its four queries.  A query result is     *)
(* [status, idx, approx]: the positions of the returned rows in the loaded *)
(* table, in result order, and for nearest their approx_m column; status   *)
(* is "ok" or the exception the call ends in.                              *)
(***************************************************************************)
Result(status, idx, approx) == [status |-> status, idx |-> idx, approx |-> approx]

\* json.load of the file json.dump wrote: the pairs are read in file order into a
\* dict, a repeated key keeping its first place and its last value
JsonLoad(pairs) ==
    LET first == {i \in 1..Len(pairs) :
                    \A j \in 1..(i - 1) : pairs[j].key # pairs[i].key}
        Last(k) == CHOOSE i \in 1..Len(pairs) :
                      /\ pairs[i].key = k
                      /\ \A j \in (i + 1)..Len(pairs) : pairs[j].key # k
        RECURSIVE Pick(_)
        Pick(i) == IF i > Len(pairs) THEN <<>>
                   ELSE IF i \in first
                        THEN <<[key |-> pairs[i].key, idxs |-> pairs[Last(pairs[i].key)].idxs]>>
                             \o Pick(i + 1)
                        ELSE Pick(i + 1)
    IN Pick(1)

\* POIIndex.__init__: read the table, add the _key column, read the name index,
\* build the KD-tree when scipy can be imported
LoadIndex(poi, pairs, scipy_ok, rapidfuzz_ok) ==
    [loaded      |-> TRUE,
     df          |-> [i \in 1..Len(poi) |->
                        [id |-> poi[i].id, kind |-> poi[i].kind, name |-> poi[i].name,
                         lat |-> poi[i].lat, lon |-> poi[i].lon,
                         name_key |-> poi[i].name_key, _key |-> build_key(poi[i].name)]],
     names_index |-> JsonLoad(pairs),
     kdtree      |-> scipy_ok,
     rapidfuzz   |-> rapidfuzz_ok]

\* self.names_index.get(key, [])
DictGet(d, key) ==
    LET hit == {i \in 1..Len(d) : d[i].key = key}
    IN IF hit = {} THEN <<>> ELSE d[CHOOSE i \in hit : TRUE].idxs

\* df.iloc[idxs] raises IndexError for a position outside the table
IlocOk(df, idxs) == \A i \in 1..Len(idxs) : idxs[i] >= 0 /\ idxs[i] < Len(df)

\* res[res["kind"] == kind] when a kind is given ("" stands for None)
FilterKind(df, idxs, kind) ==
    IF kind = "" THEN idxs ELSE SelectSeq(idxs, LAMBDA p : df[p + 1].kind = kind)

\* `q in s` for strings
Contains(s, q) ==
    \E i \in 0..(Len(s) - Len(q)) : SubSeq(s, i + 1, i + Len(q)) = q

PositionsWhere(df, Test(_)) ==
    LET RECURSIVE Pick(_)
        Pick(i) == IF i > Len(df) THEN <<>>
                   ELSE IF Test(df[i]) THEN <<i - 1>> \o Pick(i + 1)
                        ELSE Pick(i + 1)
    IN Pick(1)

find_exact(ix, name, kind) ==
    LET key  == build_key(name)
        idxs == DictGet(ix.names_index, key)
    IN IF ~IlocOk(ix.df, idxs) THEN Result("IndexError", <<>>, <<>>)
       ELSE Result("ok", FilterKind(ix.df, idxs, kind), <<>>)

\* Series.str.contains(q) takes q as a regular expression; the alphabet holds no
\* regex metacharacter that normalize_text leaves in place, so q matches as plain
\* text
find_substring(ix, query, kind) ==
    LET q == Lower(normalize_text(query))
    IN Result("ok",
              FilterKind(ix.df, PositionsWhere(ix.df, LAMBDA r : Contains(r._key, q)), kind),
              <<>>)

\* the scorer's threshold of find_fuzzy
ScoreCutoff == 70

\* rapidfuzz.process.extract(key, choices, scorer, limit): the choices by
\* descending score, equal scores in the order of the choices, the first `limit`
\* of them.  sc[i] is the score the scorer gives choice i.
ExtractTop(sc, limit) ==
    LET n       == Len(sc)
        Rank(i) == Cardinality({j \in 1..n : sc[j] > sc[i] \/ (sc[j] = sc[i] /\ j < i)})
        m       == IF limit < n THEN limit ELSE n
    IN [r \in 1..m |-> CHOOSE i \in 1..n : Rank(i) = r - 1]

RECURSIVE ConcatIdxs(_, _)
ConcatIdxs(d, ks) ==
    IF ks = <<>> THEN <<>> ELSE d[Head(ks)].idxs \o ConcatIdxs(d, Tail(ks))

\* find_fuzzy that answers a missing backend with the substring search
find_fuzzy_fallback(ix, query, limit, kind, sc) ==
    IF ~ix.rapidfuzz THEN find_substring(ix, query, kind)
    ELSE LET top  == ExtractTop(sc, limit)
             keys == SelectSeq(top, LAMBDA i : sc[i] >= ScoreCutoff)
             idxs == ConcatIdxs(ix.names_index, keys)
         IN IF ~IlocOk(ix.df, idxs) THEN Result("IndexError", <<>>, <<>>)
            ELSE Result("ok", FilterKind(ix.df, idxs, kind), <<>>)

\* sc holds the WRatio score of build_key(query) against every key of the name
\* index, in dict order
find_fuzzy(ix, query, limit, kind, sc) ==
    IF ~ix.rapidfuzz THEN Result("RuntimeError", <<>>, <<>>)
    ELSE LET top  == ExtractTop(sc, limit)
             keys == SelectSeq(top, LAMBDA i : sc[i] >= ScoreCutoff)
             idxs == ConcatIdxs(ix.names_index, keys)
         IN IF ~IlocOk(ix.df, idxs) THEN Result("IndexError", <<>>, <<>>)
            ELSE Result("ok", FilterKind(ix.df, idxs, kind), <<>>)

\* meters per degree of the approx_m column
METERS_PER_DEG == 111000

Dist2(r, lat, lon) == (r.lat - lat) * (r.lat - lat) + (r.lon - lon) * (r.lon - lon)

ISqrt(x) == CHOOSE m \in 0..x : m * m <= x /\ (m + 1) * (m + 1) > x

\* int(dist * 111_000) for a distance whose square is d2 thousandths of a degree
\* squared (the rounding of the float product is not modelled)
ApproxM(d2) == ISqrt((METERS_PER_DEG \div 1000) * (METERS_PER_DEG \div 1000) * d2)

\* the rows cKDTree.query may report as the nearest one
NearestPositions(df, lat, lon) ==
    {p \in 0..(Len(df) - 1) :
        \A o \in 1..Len(df) : Dist2(df[p + 1], lat, lon) <= Dist2(df[o], lat, lon)}

\* nearest(lat, lon, k, kind).  query() on one point gives arrays of shape (k,)
\* for k = 1 and (1, k) otherwise, padded with the index n where the tree has
\* fewer than k points: iloc raises IndexError for the pad, and a (1, k) indexer
\* or a (1, k) column for k rows raises ValueError.  pick is the position the
\* tree reports for k = 1.
nearest(ix, lat, lon, k, kind, pick) ==
    IF ~ix.kdtree THEN Result("RuntimeError", <<>>, <<>>)
    ELSE IF k > Len(ix.df) THEN Result("IndexError", <<>>, <<>>)
    ELSE IF k > 1 THEN Result("ValueError", <<>>, <<>>)
    ELSE Result("ok", FilterKind(ix.df, <<pick>>, kind),
                [i \in 1..Len(FilterKind(ix.df, <<pick>>, kind)) |->
                    ApproxM(Dist2(ix.df[pick + 1], lat, lon))])

(***************************************************************************)
(* Request server (run_server.py): StopItem, norm_text and                 *)
(* StopsIndexer.search.                                                    *)
(***************************************************************************)
StopItem(name, pref, line) == [name |-> name, pref |-> pref, line |-> line]

\* the re.sub of norm_text that moves U+FF01..U+FF5E down by 0xFEE0
HalfWidth(c) == CASE c = "FA"  -> "A"
                  [] c = "FLP" -> "LP"
                  [] OTHER     -> c

\* norm_text: full-width to half-width, runs of whitespace to one space, strip
norm_text(s) == Strip(CollapseSpaces(MapSeq(s, HalfWidth)))

\* str.split(): the maximal runs of non-whitespace
RECURSIVE Split(_)
Split(s) ==
    IF s = <<>> THEN <<>>
    ELSE IF IsSpace(Head(s)) THEN Split(Tail(s))
    ELSE LET stop == {i \in 1..Len(s) : IsSpace(s[i])}
             n    == IF stop = {} THEN Len(s)
                     ELSE (CHOOSE i \in stop : \A j \in stop : i <= j) - 1
         IN <<SubSeq(s, 1, n)>> \o Split(SubSeq(s, n + 1, Len(s)))

\* sum(t in text for t in tokens)
HitCount(tokens, text) == Cardinality({i \in 1..Len(tokens) : Contains(text, tokens[i])})

\* a sort key of the hits in the name alone
score_name_only(item, tokens) ==
    <<0 - HitCount(tokens, Lower(item.name)), 0, 0>>

\* the sort key of search: (-hit_name, -hit_pref, -hit_line)
score(item, tokens) ==
    <<0 - HitCount(tokens, Lower(item.name)),
      0 - HitCount(tokens, Lower(item.pref)),
      0 - HitCount(tokens, Lower(item.line))>>

\* tuple comparison
TupleLess(x, y) ==
    \/ x[1] < y[1]
    \/ x[1] = y[1] /\ x[2] < y[2]
    \/ x[1] = y[1] /\ x[2] = y[2] /\ x[3] < y[3]

\* list.sort(key=...): ascending and stable
SortByScore(hits, tokens) ==
    LET n       == Len(hits)
        K(i)    == score(hits[i], tokens)
        Rank(i) == Cardinality({j \in 1..n : TupleLess(K(j), K(i)) \/ (K(j) = K(i) /\ j < i)})
    IN [r \in 1..n |-> hits[CHOOSE i \in 1..n : Rank(i) = r - 1]]

\* hits[:limit]
SliceTo(hits, limit) ==
    IF limit >= 0
    THEN SubSeq(hits, 1, IF limit < Len(hits) THEN limit ELSE Len(hits))
    ELSE SubSeq(hits, 1, IF Len(hits) + limit > 0 THEN Len(hits) + limit ELSE 0)

\* StopsIndexer.search(q, limit) over the items the list holds when it is read
search(items, q, limit) ==
    LET qn     == norm_text(q)
        tokens == Split(Lower(qn))
        Match(it) == \A i \in 1..Len(tokens) :
                        \/ Contains(Lower(it.name), tokens[i])
                        \/ Contains(Lower(it.line), tokens[i])
                        \/ Contains(Lower(it.pref), tokens[i])
    IN IF qn = <<>> THEN <<>>
       ELSE SliceTo(SortByScore(SelectSeq(items, Match), tokens), limit)

\* one file below the data directory: its extension, the StopItems its ingest
\* appends (for a .zip: those of its members, in archive order)
DataFile(ext, items) == [ext |-> ext, items |-> items]

\* the suffixes _try_ingest_path and _try_ingest_zip take up
INGESTED == {".geojson", ".json", ".gml", ".xml"}

(***************************************************************************)
(* StopsIndexer._ingest_p11_gml.  A document is the sequence of its Point  *)
(* and BusStop elements in document order (root.iter()).  An element is    *)
(* [tag, id, pos, name, ref]: for a Point its gml:id (<<>> when it has     *)
(* none) and the whitespace-separated tokens of its pos text (<<>> when it *)
(* has no pos or a blank one); for a BusStop the stripped text of its bsn  *)
(* (<<>> when missing or blank) and the href of its loc (<<>> when         *)
(* missing).  A token, and a coordinate, is <<v>> for the number v and     *)
(* <<>> for what float() rejects (None).                                   *)
(***************************************************************************)
Point(id, pos) == [tag |-> "Point", id |-> id, pos |-> pos, name |-> <<>>, ref |-> <<>>]

BusStop(name, ref) == [tag |-> "BusStop", id |-> <<>>, pos |-> <<>>, name |-> name, ref |-> ref]

\* a StopItem of the bus source, as far as its name and coordinates go
StopAt(name, lon, lat) == [name |-> name, lon |-> lon, lat |-> lat]

\* lat_s, lon_s = pos_text.split(); (lon, lat) = (_num(lon_s), _num(lat_s)); a
\* text of another number of tokens fails to unpack and gives (None, None)
ParsePos(pos) ==
    IF Len(pos) = 2 THEN [lon |-> pos[2], lat |-> pos[1]]
    ELSE [lon |-> <<>>, lat |-> <<>>]

\* pass 1 over doc[1..n]: the Points with an id and a pos enter id2coord
Collected(doc, n) ==
    {i \in 1..n : doc[i].tag = "Point" /\ doc[i].id # <<>> /\ doc[i].pos # <<>>}

\* id2coord after pass 1 over doc[1..n], looked up: a later Point of the same id
\* has overwritten an earlier one
Id2Coord(doc, n, gid) ==
    LET hit == {i \in Collected(doc, n) : doc[i].id = gid}
    IN ParsePos(doc[CHOOSE i \in hit : \A j \in hit : j <= i].pos)

HasCoord(doc, n, gid) == \E i \in Collected(doc, n) : doc[i].id = gid

\* ref_id = ref[1:] if ref and ref.startswith("#") (else None, <<>> here)
RefId(ref) == IF ref # <<>> /\ Head(ref) = "#" THEN Tail(ref) ELSE <<>>

\* the StopItem of one BusStop, resolved against the Points of doc[1..n]
ItemOf(doc, n, e) ==
    IF RefId(e.ref) # <<>> /\ HasCoord(doc, n, RefId(e.ref))
    THEN StopAt(e.name, Id2Coord(doc, n, RefId(e.ref)).lon,
                Id2Coord(doc, n, RefId(e.ref)).lat)
    ELSE StopAt(e.name, <<>>, <<>>)

\* the same ingest done in one pass: a BusStop sees only the Points before it
ingest_p11_gml_one_pass(doc) ==
    LET RECURSIVE Pass(_)
        Pass(i) == IF i > Len(doc) THEN <<>>
                   ELSE IF doc[i].tag = "BusStop" /\ doc[i].name # <<>>
                        THEN <<ItemOf(doc, i, doc[i])>> \o Pass(i + 1)
                        ELSE Pass(i + 1)
    IN Pass(1)

\* the same ingest leaving out the BusStops whose coordinates are not resolved
ingest_p11_gml_resolved_only(doc) ==
    LET RECURSIVE Pass(_)
        Pass(i) == IF i > Len(doc) THEN <<>>
                   ELSE IF /\ doc[i].tag = "BusStop" /\ doc[i].name # <<>>
                           /\ ItemOf(doc, Len(doc), doc[i]).lon # <<>>
                        THEN <<ItemOf(doc, Len(doc), doc[i])>> \o Pass(i + 1)
                        ELSE Pass(i + 1)
    IN Pass(1)

\* _ingest_p11_gml on a document that parses: pass 1 collects every Point, pass 2
\* appends one StopItem for every BusStop with a name
ingest_p11_gml(doc) ==
    LET RECURSIVE Pass(_)
        Pass(i) == IF i > Len(doc) THEN <<>>
                   ELSE IF doc[i].tag = "BusStop" /\ doc[i].name # <<>>
                        THEN <<ItemOf(doc, Len(doc), doc[i])>> \o Pass(i + 1)
                        ELSE Pass(i + 1)
    IN Pass(1)

(***************************************************************************)
(* State.                                                                  *)
(***************************************************************************)
\* name-key specification: a display name, its key, the key of its key
VARIABLES kpc, kname, kkey, kkey2

\* batch build: where build() stands, the flag whose specifiers are being read,
\* the specifiers of that flag read so far, the paths of the current specifier
\* still to read, the frames, the combined table, the output directory and the
\* error the last build ended in; and for the properties whether the build that
\* is running, or that ended in an error, has changed a file of the output
\* directory, and the number of writes that have failed
VARIABLES bpc, phase, nspec, pathq, frames, all_df, out, berr, bwrote, bfails

\* consumer of the output directory: the POIIndex object, the last query made on
\* it and that query's result
VARIABLES index, lastCall, res

keyVars == <<kpc, kname, kkey, kkey2>>

batchVars == <<bpc, phase, nspec, pathq, frames, all_df, out, berr, bwrote, bfails>>

\* request server: the global STOP_INDEXER (0 is None), the StopsIndexer objects
\* made so far, and per request thread: its place in the handler, the handler,
\* the q of the request, the indexer its build() call runs on, the place in the loops of
\* build(), the response, and two history values for the properties: what
\* STOP_INDEXER referred to when the request began, and whether another thread
\* has assigned STOP_INDEXER since; and whether /api/stops/reindex was ever asked
VARIABLES STOP_INDEXER, heap, pc, handler, reqq, self, iter, resp, before, overlapped,
          reindexed

queryVars == <<index, lastCall, res>>

\* bus-stop GML ingest: a document, the same elements in another order, and the
\* StopItems the ingest appends for each
VARIABLES gpc, gdoc, gperm, gitems, gitems2

gmlVars == <<gpc, gdoc, gperm, gitems, gitems2>>

\* rebuilds one after another, of the server's indexer (side "server") or of the
\* batch output (side "batch"): the files below the data directory, the
\* StopsIndexer, the specifiers given to --n05, the combined table on disk; and
\* for both, history for the properties: the store before the last build, what
\* has been done to the inputs since the last build, and what had been done to
\* them when the last build began
VARIABLES rside, rdir, rstore, bspecs, btable, rprev, rsince, rwas

rebuildVars == <<rside, rdir, rstore, bspecs, btable, rprev, rsince, rwas>>

\* collect_inputs called on one specifier: the specifier and what the call gave
VARIABLES cpc, cspec, cres

inputsVars == <<cpc, cspec, cres>>

\* column resolution of canonicalize: the columns of one frame and what the resolvers gave
VARIABLES colpc, columns, colres

columnsVars == <<colpc, columns, colres>>

\* a base name, a suffix token, the key of the base name and the key of the two joined
VARIABLES spc, sbase, ssuf, skey, skeysuf

suffixVars == <<spc, sbase, ssuf, skey, skeysuf>>

\* queries on a finished store: the POIIndex object, the item list of the StopsIndexer, the result the caller holds, and for the properties the store as it was when the queries began
VARIABLES ropc, roix, roitems, rores, roorig

readOnlyVars == <<ropc, roix, roitems, rores, roorig>>

\* one build() of the crawler over files that may fail to ingest: the place in build(), the files below the data directory, the place in the loop and the items
VARIABLES crpc, crdir, cri, critems

crawlVars == <<crpc, crdir, cri, critems>>

\* calls of StopsIndexer.search with a limit: the place, the items of the indexer, the q and the limit of the last call and what it returned
VARIABLES srpc, sritems, srq, srlimit, srhits

searchVars == <<srpc, sritems, srq, srlimit, srhits>>

serverVars ==
    <<STOP_INDEXER, heap, pc, handler, reqq, self, iter, resp, before, overlapped, reindexed>>

vars == <<keyVars, batchVars, queryVars, serverVars, gmlVars, rebuildVars, inputsVars, columnsVars, suffixVars, readOnlyVars, crawlVars, searchVars>>

(***************************************************************************)
(* Bounds and input sets of the name-key specification.                    *)
(***************************************************************************)
MaxNameLen == 4

KeyAlphabet == {"a", "A", "SP", "LP", "EKI", "TEI", "RYU", "JO"}

RECURSIVE SeqsUpTo(_, _)
SeqsUpTo(S, n) ==
    IF n = 0 THEN {<<>>}
    ELSE LET shorter == SeqsUpTo(S, n - 1)
         IN shorter \cup {Append(s, c) : s \in {t \in shorter : Len(t) = n - 1}, c \in S}

\* a step of one specification leaves the state of the others alone
OnlyKey == UNCHANGED <<batchVars, queryVars, serverVars, gmlVars, rebuildVars, inputsVars, columnsVars, suffixVars, readOnlyVars, crawlVars, searchVars>>

OnlyBatch == UNCHANGED <<keyVars, serverVars, gmlVars, rebuildVars, inputsVars, columnsVars, suffixVars, readOnlyVars, crawlVars, searchVars>>

OnlyServer == UNCHANGED <<keyVars, batchVars, queryVars, gmlVars, rebuildVars, inputsVars, columnsVars, suffixVars, readOnlyVars, crawlVars, searchVars>>

OnlyGml == UNCHANGED <<keyVars, batchVars, queryVars, serverVars, rebuildVars, inputsVars, columnsVars, suffixVars, readOnlyVars, crawlVars, searchVars>>

OnlyRebuild == UNCHANGED <<keyVars, batchVars, queryVars, serverVars, gmlVars, inputsVars, columnsVars, suffixVars, readOnlyVars, crawlVars, searchVars>>

OnlyInputs == UNCHANGED <<keyVars, batchVars, queryVars, serverVars, gmlVars, rebuildVars, columnsVars, suffixVars, readOnlyVars, crawlVars, searchVars>>

OnlyColumns == UNCHANGED <<keyVars, batchVars, queryVars, serverVars, gmlVars, rebuildVars, inputsVars, suffixVars, readOnlyVars, crawlVars, searchVars>>

OnlySuffix == UNCHANGED <<keyVars, batchVars, queryVars, serverVars, gmlVars, rebuildVars, inputsVars, columnsVars, readOnlyVars, crawlVars, searchVars>>

OnlyReadOnly == UNCHANGED <<keyVars, batchVars, queryVars, serverVars, gmlVars, rebuildVars, inputsVars, columnsVars, suffixVars, crawlVars, searchVars>>

OnlyCrawl == UNCHANGED <<keyVars, batchVars, queryVars, serverVars, gmlVars, rebuildVars, inputsVars, columnsVars, suffixVars, readOnlyVars, searchVars>>

OnlySearch == UNCHANGED <<keyVars, batchVars, queryVars, serverVars, gmlVars, rebuildVars, inputsVars, columnsVars, suffixVars, readOnlyVars, crawlVars>>

\* no StopsIndexer and no batch output yet.  built: a build has written the
\* store; current: the last build run on it ended without an exception
NoStore == [built |-> FALSE, current |-> FALSE, items |-> <<>>,
            dir_files_considered |-> 0, zip_files_considered |-> 0]

RebuildOff ==
    /\ rside = "off" /\ rdir = <<>> /\ rstore = NoStore /\ bspecs = <<>> /\ btable = NoStore
    /\ rprev = NoStore /\ rsince = "" /\ rwas = ""

GmlOff == gpc = "off" /\ gdoc = <<>> /\ gperm = <<>> /\ gitems = <<>> /\ gitems2 = <<>>

SearchOff == srpc = "off" /\ sritems = <<>> /\ srq = <<>> /\ srlimit = 0 /\ srhits = <<>>

CrawlOff == crpc = "off" /\ crdir = <<>> /\ cri = 0 /\ critems = <<>>

ReadOnlyOff == ropc = "off" /\ roix = <<>> /\ roitems = <<>> /\ rores = <<>> /\ roorig = <<>>

SuffixOff == spc = "off" /\ sbase = <<>> /\ ssuf = <<>> /\ skey = <<>> /\ skeysuf = <<>>

ColumnsOff == colpc = "off" /\ columns = <<>> /\ colres = <<>>

InputsOff == cpc = "off" /\ cspec = <<>> /\ cres = <<>>

KeyOff == kpc = "off" /\ kname = <<>> /\ kkey = <<>> /\ kkey2 = <<>>

\* a display name arrives
KeyInit ==
    /\ kpc = "name"
    /\ kname \in SeqsUpTo(KeyAlphabet, MaxNameLen)
    /\ kkey = <<>>
    /\ kkey2 = <<>>

\* out["name_key"] = out["name"].map(build_key)
KeyBuild ==
    /\ kpc = "name"
    /\ kkey' = build_key(kname)
    /\ kpc' = "key"
    /\ UNCHANGED <<kname, kkey2>>
    /\ OnlyKey

\* the key is normalised again (POIIndex.find_exact on a stored key)
KeyRebuild ==
    /\ kpc = "key"
    /\ kkey2' = build_key(kkey)
    /\ kpc' = "rekey"
    /\ UNCHANGED <<kname, kkey>>
    /\ OnlyKey

(***************************************************************************)
(* Batch build and queries: bounds, the files of the test file system and  *)
(* the inputs of the queries.                                              *)
(***************************************************************************)
\* most --n05 specifiers and most --p11 specifiers of one build
MaxN05 == 2

MaxP11 == 1

\* largest limit of find_fuzzy and largest k of nearest tried
MaxLimit == 2

MaxK == 2

NameA    == <<"a">>
NameAEki == <<"a", "EKI">>
NameB    == <<"b">>
NameFA   == <<"FA">>

\* a file with the same station twice, once with and once without the suffix
FileOne   == Entry(".gml", TRUE, <<Raw(NameAEki, 0, 0), Raw(NameA, 0, 0)>>)
\* a second file with that station and another one
FileTwo   == Entry(".geojson", TRUE, <<Raw(NameAEki, 0, 0), Raw(NameB, 3, 4)>>)
\* a file with a same-named station elsewhere (full-width spelling)
FileThree == Entry(".gml", TRUE, <<Raw(NameFA, 3, 4)>>)
FileText  == Entry(".txt", TRUE, <<>>)
FileBad   == Entry(".gml", FALSE, <<>>)
FileZip   == Entry(".zip", TRUE, <<>>)
\* a file of features with coordinates and no column that looks like a name
FileNoName == NamelessEntry(".geojson", <<Raw(NameB, 3, 4)>>)

InputSpec(type, entries, members) ==
    [type |-> type, entries |-> entries, members |-> members]

SpecPool ==
    { InputSpec("dir", <<FileTwo, FileText>>, <<>>),
      InputSpec("file", <<FileZip>>, <<FileThree, FileTwo>>),
      InputSpec("glob", <<FileText>>, <<>>),
      InputSpec("file", <<FileBad>>, <<>>),
      InputSpec("dir", <<FileThree, FileNoName, FileTwo>>, <<>>),
      InputSpec("file", <<FileText>>, <<>>),
      InputSpec("missing", <<>>, <<>>) }

QueryNames == {NameA, NameAEki, NameB, <<"A", "SP">>}

\* the terms find_fuzzy is asked for: the scorer's answer is drawn separately
\* (ScoreValues), so the term itself only matters to what other searches would
\* return for it
FuzzyQueries == {NameA, NameB}

KindFilters == {"", "station", "bus_stop"}

QueryPoints == {<<0, 0>>, <<1, 2>>}

\* the scores the similarity backend may give a key
ScoreValues == {ScoreCutoff - 1, ScoreCutoff, 100}

NoFile == [present |-> FALSE, data |-> <<>>]

File(data) == [present |-> TRUE, data |-> data]

NoIndex ==
    [loaded |-> FALSE, df |-> <<>>, names_index |-> <<>>, kdtree |-> FALSE,
     rapidfuzz |-> FALSE]

NoCall ==
    [op |-> "", q |-> <<>>, kind |-> "", n |-> 0, lat |-> 0, lon |-> 0, sc |-> <<>>]

Call(op, q, kind, n, lat, lon, sc) ==
    [op |-> op, q |-> q, kind |-> kind, n |-> n, lat |-> lat, lon |-> lon, sc |-> sc]

NoResult == Result("", <<>>, <<>>)

BatchOff ==
    /\ bpc = "off" /\ phase = "" /\ nspec = 0 /\ pathq = <<>> /\ frames = <<>>
    /\ all_df = <<>> /\ berr = ""
    /\ out = [stations |-> NoFile, busstops |-> NoFile, poi |-> NoFile,
              names_index |-> NoFile, synced |-> TRUE]
    /\ bwrote = FALSE /\ bfails = 0
    /\ index = NoIndex /\ lastCall = NoCall /\ res = NoResult

\* an empty output directory and no consumer
BatchInit ==
    /\ bpc = "idle" /\ phase = "" /\ nspec = 0 /\ pathq = <<>> /\ frames = <<>>
    /\ all_df = <<>> /\ berr = ""
    /\ out = [stations |-> NoFile, busstops |-> NoFile, poi |-> NoFile,
              names_index |-> NoFile, synced |-> TRUE]
    /\ bwrote = FALSE /\ bfails = 0
    /\ index = NoIndex /\ lastCall = NoCall /\ res = NoResult

KindOfPhase == IF phase = "n05" THEN "station" ELSE "bus_stop"

\* build(): the directories are made; a consumer of an earlier build has ended
BuildStart ==
    /\ bpc = "idle" /\ lastCall.op = ""
    /\ bpc' = "specs" /\ phase' = "n05" /\ nspec' = 0 /\ berr' = ""
    /\ pathq' = <<>> /\ frames' = <<>> /\ all_df' = <<>>
    /\ index' = NoIndex /\ lastCall' = NoCall /\ res' = NoResult
    /\ UNCHANGED <<out, bfails>> /\ bwrote' = FALSE
    /\ OnlyBatch

\* the build ends in the exception err; what was written stays
Abort(err) ==
    /\ bpc' = "idle" /\ berr' = err /\ phase' = "" /\ nspec' = 0
    /\ pathq' = <<>> /\ frames' = <<>> /\ all_df' = <<>>

\* for spec in cfg.n05_specs / cfg.p11_specs: collect_inputs(spec, ...)
BuildCollect ==
    /\ bpc = "specs"
    /\ nspec < (IF phase = "n05" THEN MaxN05 ELSE MaxP11)
    /\ \E spec \in SpecPool :
         LET r == collect_inputs(spec)
         IN IF r.ok
            THEN /\ pathq' = r.paths
                 /\ nspec' = nspec + 1
                 /\ bpc' = IF r.paths = <<>> THEN "specs" ELSE "paths"
                 /\ UNCHANGED <<phase, frames, all_df, berr>>
            ELSE Abort(r.err)
    /\ UNCHANGED <<out, bwrote, bfails, index, lastCall, res>>
    /\ OnlyBatch

\* a loop that logs the input it cannot read or name and goes on to the next
BuildReadSkipping ==
    /\ bpc = "paths"
    /\ LET path == Head(pathq)
       IN /\ frames' = IF path.readable /\ path.named
                        THEN Append(frames, canonicalize(path.recs, KindOfPhase))
                        ELSE frames
          /\ berr' = IF ~path.readable THEN "read"
                     ELSE IF ~path.named THEN "name" ELSE berr
          /\ pathq' = Tail(pathq)
          /\ bpc' = IF Tail(pathq) = <<>> THEN "specs" ELSE "paths"
          /\ UNCHANGED <<phase, nspec, all_df>>
    /\ UNCHANGED <<out, bwrote, bfails, index, lastCall, res>>
    /\ OnlyBatch

\* for path in ...: read_any_vector(path), canonicalize(gdf, kind), frames.append
BuildRead ==
    /\ bpc = "paths"
    /\ LET path == Head(pathq)
       IN IF ~path.readable THEN Abort("read")
          ELSE IF ~path.named THEN Abort("name")
          ELSE /\ frames' = Append(frames, canonicalize(path.recs, KindOfPhase))
               /\ pathq' = Tail(pathq)
               /\ bpc' = IF Tail(pathq) = <<>> THEN "specs" ELSE "paths"
               /\ UNCHANGED <<phase, nspec, all_df, berr>>
    /\ UNCHANGED <<out, bwrote, bfails, index, lastCall, res>>
    /\ OnlyBatch

\* the loop over cfg.n05_specs is over
BuildEndN05 ==
    /\ bpc = "specs" /\ phase = "n05"
    /\ phase' = "p11" /\ nspec' = 0
    /\ UNCHANGED <<bpc, pathq, frames, all_df, berr, out, bwrote, bfails, index, lastCall, res>>
    /\ OnlyBatch

\* the loop over cfg.p11_specs is over: no frames is an error, else pd.concat
BuildConcat ==
    /\ bpc = "specs" /\ phase = "p11"
    /\ IF frames = <<>>
       THEN Abort("noinput")
       ELSE /\ all_df' = Concat(frames)
            /\ bpc' = "write_stations"
            /\ UNCHANGED <<phase, nspec, pathq, frames, berr>>
    /\ UNCHANGED <<out, bwrote, bfails, index, lastCall, res>>
    /\ OnlyBatch

\* if not stations.empty: stations.to_parquet(...)
WriteStations ==
    /\ bpc = "write_stations"
    /\ out' = IF OfKind(all_df, "station") # <<>>
              THEN [out EXCEPT !.stations = File(OfKind(all_df, "station"))]
              ELSE out
    /\ bpc' = "write_busstops"
    /\ bwrote' = (bwrote \/ out' # out)
    /\ UNCHANGED <<phase, nspec, pathq, frames, all_df, berr, bfails, index, lastCall, res>>
    /\ OnlyBatch

\* if not busstops.empty: busstops.to_parquet(...)
WriteBusstops ==
    /\ bpc = "write_busstops"
    /\ out' = IF OfKind(all_df, "bus_stop") # <<>>
              THEN [out EXCEPT !.busstops = File(OfKind(all_df, "bus_stop"))]
              ELSE out
    /\ bpc' = "write_poi"
    /\ bwrote' = (bwrote \/ out' # out)
    /\ UNCHANGED <<phase, nspec, pathq, frames, all_df, berr, bfails, index, lastCall, res>>
    /\ OnlyBatch

\* all_df.to_parquet(poi.parquet): from here to the write of the name index the
\* two files are of different builds
WritePoi ==
    /\ bpc = "write_poi"
    /\ out' = [out EXCEPT !.poi = File(all_df), !.synced = FALSE]
    /\ bpc' = "write_index"
    /\ bwrote' = (bwrote \/ out' # out)
    /\ UNCHANGED <<phase, nspec, pathq, frames, all_df, berr, bfails, index, lastCall, res>>
    /\ OnlyBatch

\* name_to_idxs is built and dumped to names_index.json; build() returns
WriteIndex ==
    /\ bpc = "write_index"
    /\ out' = [out EXCEPT !.names_index = File(name_to_idxs(all_df)), !.synced = TRUE]
    /\ bwrote' = FALSE
    /\ bpc' = "idle" /\ phase' = "" /\ nspec' = 0
    /\ pathq' = <<>> /\ frames' = <<>> /\ all_df' = <<>>
    /\ UNCHANGED <<berr, bfails, index, lastCall, res>>
    /\ OnlyBatch

\* POIIndex(poi.parquet, names_index.json) in a process where scipy and rapidfuzz
\* can or cannot be imported
Load ==
    /\ bpc = "idle" /\ ~index.loaded
    /\ out.poi.present /\ out.names_index.present
    /\ \E scipy_ok \in BOOLEAN, rapidfuzz_ok \in BOOLEAN :
         index' = LoadIndex(out.poi.data, out.names_index.data, scipy_ok, rapidfuzz_ok)
    /\ UNCHANGED <<batchVars, lastCall, res>>
    /\ OnlyBatch

QFindExact ==
    /\ bpc = "idle" /\ index.loaded /\ lastCall.op = ""
    /\ \E name \in QueryNames, kind \in KindFilters :
         /\ lastCall' = Call("find_exact", name, kind, 0, 0, 0, <<>>)
         /\ res' = find_exact(index, name, kind)
    /\ UNCHANGED <<batchVars, index>>
    /\ OnlyBatch

QFindSubstring ==
    /\ bpc = "idle" /\ index.loaded /\ lastCall.op = ""
    /\ \E query \in QueryNames, kind \in KindFilters :
         /\ lastCall' = Call("find_substring", query, kind, 0, 0, 0, <<>>)
         /\ res' = find_substring(index, query, kind)
    /\ UNCHANGED <<batchVars, index>>
    /\ OnlyBatch

\* without the backend the import raises before any key is scored
QFindFuzzy ==
    /\ bpc = "idle" /\ index.loaded /\ lastCall.op = ""
    /\ \E query \in FuzzyQueries, kind \in KindFilters, limit \in 1..MaxLimit,
          sc \in (IF index.rapidfuzz
                  THEN [1..Len(index.names_index) -> ScoreValues]
                  ELSE {<<>>}) :
         /\ lastCall' = Call("find_fuzzy", query, kind, limit, 0, 0, sc)
         /\ res' = find_fuzzy(index, query, limit, kind, sc)
    /\ UNCHANGED <<batchVars, index>>
    /\ OnlyBatch

QNearest ==
    /\ bpc = "idle" /\ index.loaded /\ lastCall.op = ""
    /\ \E pt \in QueryPoints, kind \in KindFilters, k \in 1..MaxK :
         \E pick \in NearestPositions(index.df, pt[1], pt[2]) :
            /\ lastCall' = Call("nearest", <<>>, kind, k, pt[1], pt[2], <<>>)
            /\ res' = nearest(index, pt[1], pt[2], k, kind, pick)
    /\ UNCHANGED <<batchVars, index>>
    /\ OnlyBatch

\* the caller is done with the result
QReturn ==
    /\ lastCall.op # ""
    /\ lastCall' = NoCall /\ res' = NoResult
    /\ UNCHANGED <<batchVars, index>>
    /\ OnlyBatch

BatchNext ==
    \/ BuildStart \/ BuildCollect \/ BuildRead \/ BuildEndN05 \/ BuildConcat
    \/ WriteStations \/ WriteBusstops \/ WritePoi \/ WriteIndex
    \/ Load \/ QFindExact \/ QFindSubstring \/ QFindFuzzy \/ QNearest \/ QReturn

KeyNext == KeyBuild \/ KeyRebuild

(***************************************************************************)
(* Request server: the handlers of /api/stops and /api/stops/reindex, run  *)
(* by the threads of the Flask development server (app.run serves every    *)
(* request in its own thread).                                             *)
(***************************************************************************)
\* request threads that may run at once
NThreads == 2

\* StopsIndexer objects made in one run
MaxIndexers == 2

\* the default of the limit parameter of /api/stops
DefaultLimit == 50

Threads == 1..NThreads

ItemA  == StopItem(<<"a">>, <<>>, <<"b">>)
ItemAB == StopItem(<<"a", "SP", "b">>, <<>>, <<>>)
ItemB  == StopItem(<<"b">>, <<"a">>, <<>>)

\* the files rglob("*") yields below the data directory, in its order
DataFiles ==
    << DataFile(".geojson", <<ItemA, ItemAB>>),
       DataFile(".zip", <<ItemB>>),
       DataFile(".txt", <<>>) >>

\* the files rglob("*.zip") yields
ZipFiles == SelectSeq(DataFiles, LAMBDA f : f.ext = ".zip")

ServerQueries == {<<"a">>, <<"FA", "ISP", "b">>}

\* what one build() that runs alone and to its end leaves in the indexer
RECURSIVE IngestAll(_)
IngestAll(files) ==
    IF files = <<>> THEN <<>>
    ELSE (IF Head(files).ext \in INGESTED THEN Head(files).items ELSE <<>>)
         \o IngestAll(Tail(files))

RECURSIVE ZipAll(_)
ZipAll(files) == IF files = <<>> THEN <<>> ELSE Head(files).items \o ZipAll(Tail(files))

FullItems == IngestAll(DataFiles) \o ZipAll(ZipFiles)

\* StopsIndexer.__init__; running and complete are history: the build() calls
\* at work on the object, and whether the last of them ran to its end
NewIndexer ==
    [items |-> <<>>, dir_files_considered |-> 0, zip_files_considered |-> 0,
     running |-> 0, complete |-> FALSE]

NoResp == [kind |-> "", hits |-> <<>>, hitsFrom |-> 0, hitsComplete |-> FALSE,
           dir |-> 0, zip |-> 0, total |-> 0, statsFrom |-> 0, statsComplete |-> FALSE]

NoBefore == [ref |-> 0, complete |-> FALSE, items |-> <<>>, dir |-> 0, zip |-> 0]

ServerOff ==
    /\ STOP_INDEXER = 0 /\ heap = <<>>
    /\ pc = [t \in Threads |-> "off"]
    /\ handler = [t \in Threads |-> ""]
    /\ reqq = [t \in Threads |-> <<>>]
    /\ self = [t \in Threads |-> 0]
    /\ iter = [t \in Threads |-> 0]
    /\ resp = [t \in Threads |-> NoResp]
    /\ before = [t \in Threads |-> NoBefore]
    /\ overlapped = [t \in Threads |-> FALSE]
    /\ reindexed = FALSE

\* the process has started: STOP_INDEXER is None and no request is being served
ServerInit ==
    /\ STOP_INDEXER = 0 /\ heap = <<>>
    /\ pc = [t \in Threads |-> "idle"]
    /\ handler = [t \in Threads |-> ""]
    /\ reqq = [t \in Threads |-> <<>>]
    /\ self = [t \in Threads |-> 0]
    /\ iter = [t \in Threads |-> 0]
    /\ resp = [t \in Threads |-> NoResp]
    /\ before = [t \in Threads |-> NoBefore]
    /\ overlapped = [t \in Threads |-> FALSE]
    /\ reindexed = FALSE

Snapshot ==
    IF STOP_INDEXER = 0 THEN NoBefore
    ELSE [ref   |-> STOP_INDEXER,
          complete |-> heap[STOP_INDEXER].complete,
          items |-> heap[STOP_INDEXER].items,
          dir   |-> heap[STOP_INDEXER].dir_files_considered,
          zip   |-> heap[STOP_INDEXER].zip_files_considered]

\* a request for /api/stops?q=... arrives; ensure_indexers tests
\* `STOP_INDEXER is None`
StopsBegin(t) ==
    /\ pc[t] = "idle"
    /\ \E q \in ServerQueries : reqq' = [reqq EXCEPT ![t] = q]
    /\ handler' = [handler EXCEPT ![t] = "stops"]
    /\ pc' = [pc EXCEPT ![t] = IF STOP_INDEXER = 0 THEN "ens_new" ELSE "search"]
    /\ UNCHANGED <<STOP_INDEXER, heap, self, iter, resp, before, overlapped, reindexed>>
    /\ OnlyServer

\* the threads whose reindex request is under way
InReindex(u) == handler[u] = "reindex" /\ pc[u] \notin {"idle", "done", "failed"}

\* ensure_indexers: STOP_INDEXER = StopsIndexer(DATA_ROOT)
EnsureAssign(t) ==
    /\ pc[t] = "ens_new"
    /\ Len(heap) < MaxIndexers
    /\ heap' = Append(heap, NewIndexer)
    /\ STOP_INDEXER' = Len(heap) + 1
    /\ pc' = [pc EXCEPT ![t] = "call_build"]
    /\ overlapped' = [u \in Threads |-> IF u # t /\ InReindex(u) THEN TRUE ELSE overlapped[u]]
    /\ UNCHANGED <<handler, reqq, self, iter, resp, before, reindexed>>
    /\ OnlyServer

\* a request for /api/stops/reindex arrives:
\* STOP_INDEXER = StopsIndexer(DATA_ROOT)
ReindexBegin(t) ==
    /\ pc[t] = "idle"
    /\ Len(heap) < MaxIndexers
    /\ handler' = [handler EXCEPT ![t] = "reindex"]
    /\ before' = [before EXCEPT ![t] = Snapshot]
    /\ heap' = Append(heap, NewIndexer)
    /\ STOP_INDEXER' = Len(heap) + 1
    /\ pc' = [pc EXCEPT ![t] = "call_build"]
    /\ overlapped' = [u \in Threads |-> IF u # t /\ InReindex(u) THEN TRUE ELSE overlapped[u]]
    /\ reindexed' = TRUE
    /\ UNCHANGED <<reqq, self, iter, resp>>
    /\ OnlyServer

\* STOP_INDEXER.build(): the global is read again, then build() clears the
\* items and the counters of the object it was called on
BuildClear(t) ==
    /\ pc[t] = "call_build"
    /\ self' = [self EXCEPT ![t] = STOP_INDEXER]
    /\ heap' = [heap EXCEPT ![STOP_INDEXER] =
                  [items |-> <<>>, dir_files_considered |-> 0, zip_files_considered |-> 0,
                   running |-> @.running + 1, complete |-> FALSE]]
    /\ iter' = [iter EXCEPT ![t] = 1]
    /\ pc' = [pc EXCEPT ![t] = "build_dir"]
    /\ UNCHANGED <<STOP_INDEXER, handler, reqq, resp, before, overlapped, reindexed>>
    /\ OnlyServer

\* one turn of `for path in self._iter_files(...)`: count the file, ingest it
BuildDirFile(t) ==
    /\ pc[t] = "build_dir" /\ iter[t] <= Len(DataFiles)
    /\ LET f == DataFiles[iter[t]]
       IN heap' = [heap EXCEPT ![self[t]] =
                     [@ EXCEPT !.dir_files_considered = @ + 1,
                               !.items = IF f.ext \in INGESTED THEN @ \o f.items ELSE @]]
    /\ iter' = [iter EXCEPT ![t] = @ + 1]
    /\ UNCHANGED <<STOP_INDEXER, pc, handler, reqq, self, resp, before, overlapped, reindexed>>
    /\ OnlyServer

\* the first loop is over
BuildDirEnd(t) ==
    /\ pc[t] = "build_dir" /\ iter[t] > Len(DataFiles)
    /\ iter' = [iter EXCEPT ![t] = 1]
    /\ pc' = [pc EXCEPT ![t] = "build_zip"]
    /\ UNCHANGED <<STOP_INDEXER, heap, handler, reqq, self, resp, before, overlapped, reindexed>>
    /\ OnlyServer

\* one turn of `for zpath in self._iter_zip_files(...)`
BuildZipFile(t) ==
    /\ pc[t] = "build_zip" /\ iter[t] <= Len(ZipFiles)
    /\ heap' = [heap EXCEPT ![self[t]] =
                  [@ EXCEPT !.zip_files_considered = @ + 1,
                            !.items = @ \o ZipFiles[iter[t]].items]]
    /\ iter' = [iter EXCEPT ![t] = @ + 1]
    /\ UNCHANGED <<STOP_INDEXER, pc, handler, reqq, self, resp, before, overlapped, reindexed>>
    /\ OnlyServer

\* build() returns to ensure_indexers or to the reindex handler
BuildReturn(t) ==
    /\ pc[t] = "build_zip" /\ iter[t] > Len(ZipFiles)
    /\ heap' = [heap EXCEPT ![self[t]] =
                  [@ EXCEPT !.running = @ - 1,
                            !.complete = (heap[self[t]].running = 1)]]
    /\ pc' = [pc EXCEPT ![t] = IF handler[t] = "stops" THEN "search" ELSE "rx_resp"]
    /\ iter' = [iter EXCEPT ![t] = 0]
    /\ self' = [self EXCEPT ![t] = 0]
    /\ UNCHANGED <<STOP_INDEXER, handler, reqq, resp, before, overlapped, reindexed>>
    /\ OnlyServer

\* rglob raises while the directory is enumerated (an OSError other than
\* PermissionError): build() and the handler end in the exception
BuildRaise(t) ==
    /\ pc[t] \in {"build_dir", "build_zip"}
    /\ heap' = [heap EXCEPT ![self[t]] = [@ EXCEPT !.running = @ - 1]]
    /\ pc' = [pc EXCEPT ![t] = "failed"]
    /\ iter' = [iter EXCEPT ![t] = 0]
    /\ self' = [self EXCEPT ![t] = 0]
    /\ UNCHANGED <<STOP_INDEXER, handler, reqq, resp, before, overlapped, reindexed>>
    /\ OnlyServer

\* hits = STOP_INDEXER.search(q, limit=limit)
StopsSearch(t) ==
    /\ pc[t] = "search"
    /\ resp' = [resp EXCEPT ![t] =
                  [@ EXCEPT !.kind = "stops",
                            !.hits = search(heap[STOP_INDEXER].items, reqq[t], DefaultLimit),
                            !.hitsFrom = STOP_INDEXER,
                            !.hitsComplete = heap[STOP_INDEXER].complete]]
    /\ pc' = [pc EXCEPT ![t] = "stats"]
    /\ UNCHANGED <<STOP_INDEXER, heap, handler, reqq, self, iter, before, overlapped, reindexed>>
    /\ OnlyServer

\* stats = {... STOP_INDEXER.dir_files_considered ... len(STOP_INDEXER.items)}
StopsStats(t) ==
    /\ pc[t] = "stats"
    /\ resp' = [resp EXCEPT ![t] =
                  [@ EXCEPT !.dir = heap[STOP_INDEXER].dir_files_considered,
                            !.zip = heap[STOP_INDEXER].zip_files_considered,
                            !.total = Len(heap[STOP_INDEXER].items),
                            !.statsFrom = STOP_INDEXER,
                            !.statsComplete = heap[STOP_INDEXER].complete]]
    /\ pc' = [pc EXCEPT ![t] = "done"]
    /\ UNCHANGED <<STOP_INDEXER, heap, handler, reqq, self, iter, before, overlapped, reindexed>>
    /\ OnlyServer

\* the JSON of the reindex handler: len(STOP_INDEXER.items) and the counters
ReindexRespond(t) ==
    /\ pc[t] = "rx_resp"
    /\ resp' = [resp EXCEPT ![t] =
                  [@ EXCEPT !.kind = "reindex",
                            !.dir = heap[STOP_INDEXER].dir_files_considered,
                            !.zip = heap[STOP_INDEXER].zip_files_considered,
                            !.total = Len(heap[STOP_INDEXER].items),
                            !.statsFrom = STOP_INDEXER,
                            !.statsComplete = heap[STOP_INDEXER].complete]]
    /\ pc' = [pc EXCEPT ![t] = "done"]
    /\ UNCHANGED <<STOP_INDEXER, heap, handler, reqq, self, iter, before, overlapped, reindexed>>
    /\ OnlyServer

\* the response is sent and the thread takes the next request
Finish(t) ==
    /\ pc[t] \in {"done", "failed"}
    /\ pc' = [pc EXCEPT ![t] = "idle"]
    /\ handler' = [handler EXCEPT ![t] = ""]
    /\ reqq' = [reqq EXCEPT ![t] = <<>>]
    /\ resp' = [resp EXCEPT ![t] = NoResp]
    /\ before' = [before EXCEPT ![t] = NoBefore]
    /\ overlapped' = [overlapped EXCEPT ![t] = FALSE]
    /\ UNCHANGED <<STOP_INDEXER, heap, self, iter, reindexed>>
    /\ OnlyServer

StopsBeginSome == \E t \in Threads : StopsBegin(t)
EnsureAssignSome == \E t \in Threads : EnsureAssign(t)
BuildClearSome == \E t \in Threads : BuildClear(t)
BuildDirFileSome == \E t \in Threads : BuildDirFile(t)
BuildDirEndSome == \E t \in Threads : BuildDirEnd(t)
BuildZipFileSome == \E t \in Threads : BuildZipFile(t)
BuildReturnSome == \E t \in Threads : BuildReturn(t)
BuildRaiseSome == \E t \in Threads : BuildRaise(t)
StopsSearchSome == \E t \in Threads : StopsSearch(t)
StopsStatsSome == \E t \in Threads : StopsStats(t)
ReindexBeginSome == \E t \in Threads : ReindexBegin(t)
ReindexRespondSome == \E t \in Threads : ReindexRespond(t)
FinishSome == \E t \in Threads : Finish(t)

Next ==
    \/ StopsBeginSome \/ EnsureAssignSome \/ BuildClearSome
    \/ BuildDirFileSome \/ BuildDirEndSome \/ BuildZipFileSome \/ BuildReturnSome
    \/ BuildRaiseSome \/ StopsSearchSome \/ StopsStatsSome
    \/ ReindexBeginSome \/ ReindexRespondSome \/ FinishSome

Init == ServerInit /\ KeyOff /\ BatchOff /\ GmlOff /\ RebuildOff /\ InputsOff /\ ColumnsOff /\ SuffixOff /\ ReadOnlyOff /\ CrawlOff /\ SearchOff

Spec == Init /\ [][Next]_vars

InitKey == KeyInit /\ BatchOff /\ ServerOff /\ GmlOff /\ RebuildOff /\ InputsOff /\ ColumnsOff /\ SuffixOff /\ ReadOnlyOff /\ CrawlOff /\ SearchOff

SpecKey == InitKey /\ [][KeyNext]_vars

InitBatch == BatchInit /\ KeyOff /\ ServerOff /\ GmlOff /\ RebuildOff /\ InputsOff /\ ColumnsOff /\ SuffixOff /\ ReadOnlyOff /\ CrawlOff /\ SearchOff

SpecBatch == InitBatch /\ [][BatchNext]_vars

(***************************************************************************)
(* Bus-stop GML ingest: a document is ingested, and so is a reordering of  *)
(* it.                                                                     *)
(***************************************************************************)
MaxElems == 3

\* the pos texts "35.0 139.0" and "1.0 2.0", a text of one token, a text whose
\* first token is no number
PosA == << <<35>>, <<139>> >>
PosB == << <<1>>, <<2>> >>
PosOne == << <<35>> >>
PosNaN == << <<>>, <<139>> >>

GmlElements ==
    { Point(<<"n1">>, PosA), Point(<<"n1">>, PosB), Point(<<"n2">>, PosB),
      Point(<<"n1">>, <<>>), Point(<<"n2">>, PosOne), Point(<<>>, PosA),
      Point(<<"n2">>, PosNaN),
      BusStop(<<"a">>, <<"#", "n1">>), BusStop(<<"b">>, <<"#", "n2">>),
      BusStop(<<"b">>, <<"#", "n1">>), BusStop(<<"a">>, <<>>),
      BusStop(<<"a">>, <<"n1">>), BusStop(<<"a">>, <<"#", "n9">>),
      BusStop(<<>>, <<"#", "n1">>) }

GmlInit ==
    /\ gpc = "doc"
    /\ gdoc \in SeqsUpTo(GmlElements, MaxElems)
    /\ gperm = gdoc
    /\ gitems = <<>> /\ gitems2 = <<>>

\* two elements of the second document change places
GmlSwap ==
    /\ gpc = "doc"
    /\ \E i, j \in 1..Len(gperm) :
         /\ i < j
         /\ gperm' = [gperm EXCEPT ![i] = gperm[j], ![j] = gperm[i]]
    /\ UNCHANGED <<gpc, gdoc, gitems, gitems2>>
    /\ OnlyGml

\* both documents are ingested into an empty item list
GmlIngest ==
    /\ gpc = "doc"
    /\ gitems' = ingest_p11_gml(gdoc)
    /\ gitems2' = ingest_p11_gml(gperm)
    /\ gpc' = "done"
    /\ UNCHANGED <<gdoc, gperm>>
    /\ OnlyGml

GmlNext == GmlSwap \/ GmlIngest

InitGml == GmlInit /\ KeyOff /\ BatchOff /\ ServerOff /\ RebuildOff /\ InputsOff /\ ColumnsOff /\ SuffixOff /\ ReadOnlyOff /\ CrawlOff /\ SearchOff

SpecGml == InitGml /\ [][GmlNext]_vars

(***************************************************************************)
(* Rebuilds one after another.  Between two builds files are put below the *)
(* data directory (server) or inputs are added to the command line and to  *)
(* its directories (batch); nothing is taken away.                         *)
(***************************************************************************)
MaxFiles == 2

\* build() on a StopsIndexer that runs alone and to its end but does not reset
\* the object first
StopsIndexer_build_no_reset(ix, files) ==
    [built |-> TRUE, current |-> TRUE,
     items |-> ix.items \o IngestAll(files)
                  \o ZipAll(SelectSeq(files, LAMBDA f : f.ext = ".zip")),
     dir_files_considered |-> ix.dir_files_considered + Len(files),
     zip_files_considered |-> ix.zip_files_considered
                                 + Len(SelectSeq(files, LAMBDA f : f.ext = ".zip"))]

\* StopsIndexer.build() running alone and to its end on the object ix: items and
\* counters are reset, every file is counted and ingested, then every .zip
StopsIndexer_build(ix, files) ==
    [built |-> TRUE, current |-> TRUE,
     items |-> IngestAll(files) \o ZipAll(SelectSeq(files, LAMBDA f : f.ext = ".zip")),
     dir_files_considered |-> Len(files),
     zip_files_considered |-> Len(SelectSeq(files, LAMBDA f : f.ext = ".zip"))]

\* the two loops of the batch build() over the specifiers of one flag: the frames,
\* or ok = FALSE when collect_inputs or read_any_vector raises
RECURSIVE BatchFrames(_)
BatchFrames(specs) ==
    IF specs = <<>> THEN [ok |-> TRUE, frames |-> <<>>]
    ELSE LET r == collect_inputs(Head(specs))
         IN IF ~r.ok \/ (\E i \in 1..Len(r.paths) : ~r.paths[i].readable)
            THEN [ok |-> FALSE, frames |-> <<>>]
            ELSE LET rest == BatchFrames(Tail(specs))
                 IN IF ~rest.ok THEN rest
                    ELSE [ok |-> TRUE,
                          frames |-> [i \in 1..Len(r.paths) |->
                                         canonicalize(r.paths[i].recs, "station")]
                                     \o rest.frames]

\* the batch build() with --n05 specs, as far as poi.parquet goes: a build that
\* raises leaves the file of the build before
build_poi(prev, specs) ==
    LET f == BatchFrames(specs)
    IN IF ~f.ok \/ f.frames = <<>> THEN [prev EXCEPT !.current = FALSE]
       ELSE [built |-> TRUE, current |-> TRUE, items |-> Concat(f.frames),
             dir_files_considered |-> 0, zip_files_considered |-> 0]

\* the files that can be put below the data directory
ServerFilePool == {DataFiles[i] : i \in 1..Len(DataFiles)}

\* the files that can be put into a directory named on the command line
BatchFilePool == {FileTwo, FileText}

\* the specifiers that can be added to the command line
RebuildSpecPool ==
    { InputSpec("file", <<FileOne>>, <<>>),
      InputSpec("dir", <<FileOne>>, <<>>),
      InputSpec("file", <<FileZip>>, <<FileThree, FileTwo>>),
      InputSpec("file", <<FileZip>>, <<FileTwo>>),
      InputSpec("file", <<FileBad>>, <<>>) }

\* s with x put in after its first n elements
InsertAt(s, n, x) == SubSeq(s, 1, n) \o <<x>> \o SubSeq(s, n + 1, Len(s))

\* a file the server's build reads, with a record the indexer does not hold
ServerReads(f) ==
    /\ f.ext \in INGESTED \/ f.ext = ".zip"
    /\ \E i \in 1..Len(f.items) : \A j \in 1..Len(rstore.items) : rstore.items[j] # f.items[i]

\* the rows of e hold one that is no duplicate of a row of the table on disk
HasNewRow(e) ==
    \E i \in 1..Len(canonicalize(e.recs, "station")) :
        \A j \in 1..Len(btable.items) :
            DedupKey(btable.items[j]) # DedupKey(canonicalize(e.recs, "station")[i])

\* a file the batch build reads when it meets it as a path, with such a row
BatchReads(e) == e.readable /\ e.ext \in SUPPORTED_VECTORS /\ HasNewRow(e)

\* the vector files a specifier stands for: the file itself, the files below
\* the directory, the entries of the archive
VectorFiles(spec) ==
    IF spec.type = "file" /\ spec.entries[1].ext = ".zip"
    THEN FilterSupported(spec.members)
    ELSE FilterSupported(spec.entries)

\* a specifier whose vector files can all be read, one of them with such a row
SpecReads(spec) ==
    /\ \A i \in 1..Len(VectorFiles(spec)) : VectorFiles(spec)[i].readable
    /\ \E i \in 1..Len(VectorFiles(spec)) : HasNewRow(VectorFiles(spec)[i])

\* what one more change makes of the changes since the last build
Since(readable) == IF rsince = "same" /\ readable THEN "added" ELSE "other"

RebuildInit ==
    /\ rside \in {"server", "batch"}
    /\ rdir = <<>> /\ rstore = NoStore /\ bspecs = <<>> /\ btable = NoStore
    /\ rprev = NoStore /\ rsince = "same" /\ rwas = "same"

\* a file appears below the data directory, anywhere in the order of rglob
RAddFile ==
    /\ rside = "server" /\ Len(rdir) < MaxFiles
    /\ \E f \in ServerFilePool, n \in 0..Len(rdir) :
         /\ rdir' = InsertAt(rdir, n, f)
         /\ rsince' = Since(ServerReads(f))
    /\ UNCHANGED <<rside, rstore, bspecs, btable, rprev, rwas>>
    /\ OnlyRebuild

\* /api/stops/reindex served alone: a new StopsIndexer, then build()
RReindex ==
    /\ rside = "server"
    /\ rprev' = rstore
    /\ rstore' = StopsIndexer_build(NoStore, rdir)
    /\ rwas' = rsince /\ rsince' = "same"
    /\ UNCHANGED <<rside, rdir, bspecs, btable>>
    /\ OnlyRebuild

\* build() called once more on the indexer that is there
RBuildAgain ==
    /\ rside = "server" /\ rstore.built
    /\ rprev' = rstore
    /\ rstore' = StopsIndexer_build(rstore, rdir)
    /\ rwas' = rsince /\ rsince' = "same"
    /\ UNCHANGED <<rside, rdir, bspecs, btable>>
    /\ OnlyRebuild

\* one more --n05 specifier on the command line
BAddSpec ==
    /\ rside = "batch" /\ Len(bspecs) < MaxFiles
    /\ \E spec \in RebuildSpecPool :
         /\ bspecs' = Append(bspecs, spec)
         /\ rsince' = Since(SpecReads(spec))
    /\ UNCHANGED <<rside, rdir, rstore, btable, rprev, rwas>>
    /\ OnlyRebuild

\* a file appears in a directory that is among the specifiers, first or last in
\* the order of rglob
BAddToDir ==
    /\ rside = "batch"
    /\ \E k \in 1..Len(bspecs), e \in BatchFilePool :
         /\ bspecs[k].type = "dir" /\ Len(bspecs[k].entries) < MaxFiles
         /\ \E n \in {0, Len(bspecs[k].entries)} :
              bspecs' = [bspecs EXCEPT ![k].entries = InsertAt(@, n, e)]
         /\ rsince' = Since(BatchReads(e))
    /\ UNCHANGED <<rside, rdir, rstore, btable, rprev, rwas>>
    /\ OnlyRebuild

\* the batch build is run over the specifiers
BBuild ==
    /\ rside = "batch"
    /\ rprev' = btable
    /\ btable' = build_poi(btable, bspecs)
    /\ rwas' = rsince /\ rsince' = "same"
    /\ UNCHANGED <<rside, rdir, rstore, bspecs>>
    /\ OnlyRebuild

RebuildNext == RAddFile \/ RReindex \/ RBuildAgain \/ BAddSpec \/ BAddToDir \/ BBuild

InitRebuild == RebuildInit /\ KeyOff /\ BatchOff /\ ServerOff /\ GmlOff /\ InputsOff /\ ColumnsOff /\ SuffixOff /\ ReadOnlyOff /\ CrawlOff /\ SearchOff

SpecRebuild == InitRebuild /\ [][RebuildNext]_vars

(***************************************************************************)
(* collect_inputs on its own: one specifier, expanded once.                *)
(***************************************************************************)
\* files below a directory, matched by a pattern, or entries of an archive
MaxEntries == 2

FileShp == Entry(".shp", TRUE, <<>>)

EntryPool == {FileOne, FileTwo, FileText, FileShp}

\* the specifiers: a pattern and the files it matches, a directory and the
\* files below it, an archive and its entries, a single file, a path that is
\* not there
InputPool ==
    {InputSpec("glob", es, <<>>) : es \in SeqsUpTo(EntryPool, MaxEntries)}
    \cup {InputSpec("dir", es, <<>>) : es \in SeqsUpTo(EntryPool, MaxEntries)}
    \cup {InputSpec("file", <<FileZip>>, ms) : ms \in SeqsUpTo(EntryPool, MaxEntries)}
    \cup {InputSpec("file", <<e>>, <<>>) : e \in EntryPool}
    \cup {InputSpec("missing", <<>>, <<>>)}

InputsInit == cpc = "ready" /\ cspec \in InputPool /\ cres = <<>>

\* collect_inputs(spec, scratch_dir) returns or raises
CollectCall ==
    /\ cpc = "ready"
    /\ cres' = collect_inputs(cspec)
    /\ cpc' = "done"
    /\ UNCHANGED cspec
    /\ OnlyInputs

InputsNext == CollectCall

InitInputs == InputsInit /\ KeyOff /\ BatchOff /\ ServerOff /\ GmlOff /\ RebuildOff /\ ColumnsOff /\ SuffixOff /\ ReadOnlyOff /\ CrawlOff /\ SearchOff

SpecInputs == InitInputs /\ [][InputsNext]_vars

(***************************************************************************)
(* Column resolution: guess_name_column, guess_operator_column and         *)
(* guess_line_column on the columns of one frame.  A column name is the    *)
(* sequence of its characters; MEI is the character 名.                     *)
(***************************************************************************)
\* candidates of guess_name_column, in list order
NAME_CANDIDATES ==
    << <<"EKI", "MEI">>,
       <<"MEI", "SHO">>,
       <<"DAI", "HYO", "TEN", "MEI">>,
       <<"DAI", "HYO", "MEI", "SHO">>,
       <<"TEI", "RYU", "JO", "MEI">>,
       <<"BA", "SU", "TEI", "MEI">>,
       <<"n", "0", "2", "_", "0", "0", "5">>,
       <<"n", "0", "5", "_", "0", "0", "1">>,
       <<"p", "1", "1", "_", "0", "0", "1">>,
       <<"n", "a", "m", "e">>,
       <<"s", "t", "a", "t", "i", "o", "n">>,
       <<"t", "i", "t", "l", "e">>,
       <<"l", "a", "b", "e", "l">> >>

\* candidates of guess_operator_column
OPERATOR_CANDIDATES ==
    << <<"JI", "GYO", "SHA", "MEI">>,
       <<"UN", "EI", "KAI", "SHA", "MEI">>,
       <<"UN", "KO", "KAI", "SHA">>,
       <<"UN", "KO", "JI", "GYO", "SHA">>,
       <<"o", "p", "e", "r", "a", "t", "o", "r">>,
       <<"c", "o", "m", "p", "a", "n", "y">>,
       <<"o", "p", "e", "r", "a", "t", "o", "r", "_", "n", "a", "m", "e">>,
       <<"n", "0", "2", "_", "0", "0", "3">>,
       <<"n", "0", "2", "_", "0", "0", "4">> >>

\* candidates of guess_line_column
LINE_CANDIDATES ==
    << <<"RO", "SEN", "MEI">>,
       <<"l", "i", "n", "e">>,
       <<"l", "i", "n", "e", "_", "n", "a", "m", "e">>,
       <<"n", "0", "2", "_", "0", "0", "2">> >>

\* for c in columns: for cand in candidates: the first column, in column order,
\* that equals any candidate
RECURSIVE first_match_by_column(_, _)
first_match_by_column(candidates, cols) ==
    IF cols = <<>> THEN <<>>
    ELSE IF \E k \in 1..Len(candidates) : Lower(Head(cols)) = Lower(candidates[k])
         THEN <<Head(cols)>>
         ELSE first_match_by_column(candidates, Tail(cols))

\* for cand in candidates: for c in columns: if c.lower() == cand.lower():
\* return c.  <<c>> is the column returned, <<>> is falling out of the loops
RECURSIVE first_match(_, _)
first_match(candidates, cols) ==
    IF candidates = <<>> THEN <<>>
    ELSE LET hits == SelectSeq(cols, LAMBDA c : Lower(c) = Lower(Head(candidates)))
         IN IF hits # <<>> THEN <<hits[1]>>
            ELSE first_match(Tail(candidates), cols)

\* ("名" in c) or ("name" in c.lower())
LooksLikeName(c) == Contains(c, <<"MEI">>) \/ Contains(Lower(c), <<"n", "a", "m", "e">>)

\* guess_name_column: <<>> is None
guess_name_column(cols) ==
    IF first_match(NAME_CANDIDATES, cols) # <<>>
    THEN first_match(NAME_CANDIDATES, cols)
    ELSE IF SelectSeq(cols, LooksLikeName) # <<>>
         THEN <<SelectSeq(cols, LooksLikeName)[1]>>
         ELSE <<>>

guess_operator_column(cols) == first_match(OPERATOR_CANDIDATES, cols)

guess_line_column(cols) == first_match(LINE_CANDIDATES, cols)

\* what canonicalize stores under "operator" and "line": the cells of the column
\* as text, or the empty string
StoredFrom(col, cols) ==
    IF col # <<>> /\ (\E i \in 1..Len(cols) : cols[i] = col[1]) THEN "cells" ELSE ""

\* the head of canonicalize: the three resolvers, the RuntimeError when there is
\* no name column, else what the output frame takes from the columns
ResolveColumns(cols) ==
    [name_col |-> guess_name_column(cols),
     raised   |-> guess_name_column(cols) = <<>>,
     op_col   |-> guess_operator_column(cols),
     line_col |-> guess_line_column(cols),
     operator |-> IF guess_name_column(cols) = <<>> THEN ""
                  ELSE StoredFrom(guess_operator_column(cols), cols),
     line     |-> IF guess_name_column(cols) = <<>> THEN ""
                  ELSE StoredFrom(guess_line_column(cols), cols)]

\* columns of one frame
MaxCols == 3

\* column names as files have them: candidates in another case, names that only
\* hold a name token, and a name that is neither
ColumnPool ==
    { <<"n", "A", "m", "e">>, <<"t", "i", "t", "l", "e">>, <<"EKI", "MEI">>,
      <<"x", "n", "A", "m", "e">>, <<"CHI", "MEI">>,
      <<"o", "p", "e", "r", "A", "t", "o", "r">>, <<"c", "o", "m", "p", "A", "n", "y">>,
      <<"l", "i", "n", "e">>, <<"l", "i", "n", "e", "_", "n", "A", "m", "e">>,
      <<"x">> }

ColumnsInit == colpc = "ready" /\ columns \in SeqsUpTo(ColumnPool, MaxCols) /\ colres = <<>>

\* canonicalize(gdf, kind) resolves the columns of gdf
Canonicalize ==
    /\ colpc = "ready"
    /\ colres' = ResolveColumns(columns)
    /\ colpc' = "done"
    /\ UNCHANGED columns
    /\ OnlyColumns

ColumnsNext == Canonicalize

InitColumns == ColumnsInit /\ KeyOff /\ BatchOff /\ ServerOff /\ GmlOff /\ RebuildOff /\ InputsOff /\ SuffixOff /\ ReadOnlyOff /\ CrawlOff /\ SearchOff

SpecColumns == InitColumns /\ [][ColumnsNext]_vars

(***************************************************************************)
(* Name keys of a base name and of the base name with a suffix token.      *)
(***************************************************************************)
\* characters of a base name
MaxBaseLen == 3

SuffixTokens == {SUFFIXES_FOR_KEY[i] : i \in 1..Len(SUFFIXES_FOR_KEY)}

SuffixInit ==
    /\ spc = "names"
    /\ sbase \in SeqsUpTo(KeyAlphabet, MaxBaseLen)
    /\ ssuf \in SuffixTokens
    /\ skey = <<>> /\ skeysuf = <<>>

\* build_key on the base name and on the base name followed by the token
SuffixKeys ==
    /\ spc = "names"
    /\ skey' = build_key(sbase)
    /\ skeysuf' = build_key(sbase \o ssuf)
    /\ spc' = "keys"
    /\ UNCHANGED <<sbase, ssuf>>
    /\ OnlySuffix

SuffixNext == SuffixKeys

InitSuffix == SuffixInit /\ KeyOff /\ BatchOff /\ ServerOff /\ GmlOff /\ RebuildOff /\ InputsOff /\ ColumnsOff /\ ReadOnlyOff /\ CrawlOff /\ SearchOff

SpecSuffix == InitSuffix /\ [][SuffixNext]_vars

(***************************************************************************)
(* Queries on a finished store, and a caller that writes into what a       *)
(* query returned.  A frame has its rows and a base: "table" when its data *)
(* is the data of self.df (a view), "own" when the data is its own.        *)
(***************************************************************************)
\* what the selections of a query give (self.df.iloc[idxs], self.df[mask],
\* res[res["kind"] == kind]): the rows at the positions of r, over data that is
\* the table's or the frame's own (pandas leaves open which)
Selection(df, op, r, base) ==
    [op      |-> op,
     status  |-> r.status,
     idx     |-> r.idx,
     rows    |-> [i \in 1..Len(r.idx) |-> df[r.idx[i] + 1]],
     approx  |-> r.approx,
     base    |-> IF r.status = "ok" THEN base ELSE "own",
     written |-> FALSE]

\* a query that hands out the selection as it is
copy_is_view(frame) == frame

\* DataFrame.copy(): the same rows over data of its own
copy(frame) == [frame EXCEPT !.base = "own"]

\* the list StopsIndexer.search returns
Hits(items) ==
    [op |-> "search", status |-> "ok", idx |-> <<>>, rows |-> items, approx |-> <<>>,
     base |-> "own", written |-> FALSE]

NoFrame ==
    [op |-> "", status |-> "", idx |-> <<>>, rows |-> <<>>, approx |-> <<>>,
     base |-> "own", written |-> FALSE]

Bases == {"table", "own"}

\* the combined tables the queries run on
RoTables ==
    { canonicalize(FileTwo.recs, "station"),
      Concat(<<canonicalize(FileOne.recs, "station"), canonicalize(FileTwo.recs, "bus_stop")>>) }

\* the record table, the name index and the item list
RoStore == <<roix.df, roix.names_index, roitems>>

\* what the caller writes into the name of a row
Scribble == <<"b", "b">>

ReadOnlyInit ==
    /\ ropc = "idle"
    /\ \E poi \in RoTables, scipy_ok \in BOOLEAN, rapidfuzz_ok \in BOOLEAN :
         roix = LoadIndex(poi, name_to_idxs(poi), scipy_ok, rapidfuzz_ok)
    /\ roitems \in {<<>>, FullItems}
    /\ rores = NoFrame
    /\ roorig = RoStore

\* find_exact: iloc, the kind filter, then .copy()
RoFindExact ==
    /\ ropc = "idle"
    /\ \E name \in QueryNames, kind \in KindFilters, base \in Bases :
         rores' = copy(Selection(roix.df, "find_exact", find_exact(roix, name, kind), base))
    /\ ropc' = "called"
    /\ UNCHANGED <<roix, roitems, roorig>>
    /\ OnlyReadOnly

\* find_substring: the mask, the kind filter, then .copy()
RoFindSubstring ==
    /\ ropc = "idle"
    /\ \E query \in QueryNames, kind \in KindFilters, base \in Bases :
         rores' = copy(Selection(roix.df, "find_substring",
                                 find_substring(roix, query, kind), base))
    /\ ropc' = "called"
    /\ UNCHANGED <<roix, roitems, roorig>>
    /\ OnlyReadOnly

\* find_fuzzy: iloc and .copy(), then the kind filter on the copy
RoFindFuzzy ==
    /\ ropc = "idle"
    /\ \E query \in FuzzyQueries, kind \in KindFilters, limit \in 1..MaxLimit, base \in Bases,
          sc \in (IF roix.rapidfuzz
                  THEN [1..Len(roix.names_index) -> ScoreValues]
                  ELSE {<<>>}) :
         rores' = copy(Selection(roix.df, "find_fuzzy",
                                 find_fuzzy(roix, query, limit, kind, sc), base))
    /\ ropc' = "called"
    /\ UNCHANGED <<roix, roitems, roorig>>
    /\ OnlyReadOnly

\* nearest: iloc and .copy(), the approx_m column set on the copy, the kind filter
RoNearest ==
    /\ ropc = "idle"
    /\ \E pt \in QueryPoints, kind \in KindFilters, k \in 1..MaxK, base \in Bases :
         \E pick \in NearestPositions(roix.df, pt[1], pt[2]) :
            rores' = copy(Selection(roix.df, "nearest",
                                    nearest(roix, pt[1], pt[2], k, kind, pick), base))
    /\ ropc' = "called"
    /\ UNCHANGED <<roix, roitems, roorig>>
    /\ OnlyReadOnly

\* StopsIndexer.search: the matches go into a new list, which is sorted and cut
RoSearch ==
    /\ ropc = "idle"
    /\ \E q \in ServerQueries \cup {<<>>} :
         rores' = Hits(search(roitems, q, DefaultLimit))
    /\ ropc' = "called"
    /\ UNCHANGED <<roix, roitems, roorig>>
    /\ OnlyReadOnly

\* the caller sets the name in the first row of the frame a POIIndex query
\* returned; a frame over the table's data writes through to the table
RoCallerWrites ==
    /\ ropc = "called" /\ rores.op # "search" /\ rores.rows # <<>> /\ ~rores.written
    /\ rores' = [rores EXCEPT !.rows[1].name = Scribble, !.written = TRUE]
    /\ roix' = IF rores.base = "table"
               THEN [roix EXCEPT !.df[rores.idx[1] + 1].name = Scribble]
               ELSE roix
    /\ UNCHANGED <<ropc, roitems, roorig>>
    /\ OnlyReadOnly

\* the caller drops the result
RoReturn ==
    /\ ropc = "called"
    /\ ropc' = "idle" /\ rores' = NoFrame
    /\ UNCHANGED <<roix, roitems, roorig>>
    /\ OnlyReadOnly

ReadOnlyNext ==
    \/ RoFindExact \/ RoFindSubstring \/ RoFindFuzzy \/ RoNearest \/ RoSearch
    \/ RoCallerWrites \/ RoReturn

InitReadOnly == ReadOnlyInit /\ KeyOff /\ BatchOff /\ ServerOff /\ GmlOff /\ RebuildOff /\ InputsOff /\ ColumnsOff /\ SuffixOff /\ CrawlOff /\ SearchOff

SpecReadOnly == InitReadOnly /\ [][ReadOnlyNext]_vars

(***************************************************************************)
(* Batch builds one after another into the same output directory, with     *)
(* writes that can fail.                                                   *)
(***************************************************************************)
\* writes that fail in one run
MaxWriteFails == 1

\* to_parquet, open or json.dump raises (an OSError): build() ends in the
\* exception; the file that was being written is taken to be as it was
WriteRaise ==
    /\ bpc \in {"write_stations", "write_busstops", "write_poi", "write_index"}
    /\ bfails < MaxWriteFails
    /\ bfails' = bfails + 1
    /\ Abort("write")
    /\ UNCHANGED <<out, bwrote, index, lastCall, res>>
    /\ OnlyBatch

BuildNext ==
    \/ BuildStart \/ BuildCollect \/ BuildRead \/ BuildEndN05 \/ BuildConcat
    \/ WriteStations \/ WriteBusstops \/ WritePoi \/ WriteIndex \/ WriteRaise

SpecBuild == InitBatch /\ [][BuildNext]_vars

(***************************************************************************)
(* The crawler's build() over inputs whose ingest can raise.  A file has   *)
(* its extension, whether it can be opened and parsed, and its features in *)
(* order; a feature is an object with a station name, or something that is *)
(* no object (ft.get raises on it).  An archive has its entries.           *)
(***************************************************************************)
Feature(item) == [bad |-> FALSE, item |-> item]

BadFeature == [bad |-> TRUE, item |-> StopItem(<<>>, <<>>, <<>>)]

CrawlFile(ext, ok, feats, members) ==
    [ext |-> ext, ok |-> ok, feats |-> feats, members |-> members]

\* the loop of _ingest_geojson_bytes (and the second pass of _ingest_p11_gml):
\* one item is appended per feature until a feature raises
RECURSIVE AppendFeatures(_, _)
AppendFeatures(items, feats) ==
    IF feats = <<>> THEN [items |-> items, raised |-> FALSE]
    ELSE IF Head(feats).bad THEN [items |-> items, raised |-> TRUE]
         ELSE AppendFeatures(Append(items, Head(feats).item), Tail(feats))

\* _ingest_geojson_file / _ingest_p11_gml on one file or archive entry: open
\* and json.loads raise before anything is appended; _ingest_p11_gml returns
\* on a file it cannot read or parse
ingest_one(items, f) ==
    IF ~f.ok THEN [items |-> items, raised |-> f.ext \in {".geojson", ".json"}]
    ELSE AppendFeatures(items, f.feats)

\* _try_ingest_path: the exception is caught and logged
try_ingest_path(items, f) ==
    IF f.ext \in INGESTED THEN ingest_one(items, f).items ELSE items

\* the loop of _try_ingest_zip over the entries: the first entry that raises
\* ends the loop
RECURSIVE IngestEntries(_, _)
IngestEntries(items, members) ==
    IF members = <<>> THEN items
    ELSE IF Head(members).ext \notin INGESTED THEN IngestEntries(items, Tail(members))
         ELSE IF ingest_one(items, Head(members)).raised
              THEN ingest_one(items, Head(members)).items
              ELSE IngestEntries(ingest_one(items, Head(members)).items, Tail(members))

\* _try_ingest_zip: zipfile.ZipFile raises on a file that is no archive
try_ingest_zip(items, z) ==
    IF ~z.ok THEN items ELSE IngestEntries(items, z.members)

\* files below the data directory
MaxCrawl == 2

GeoGood    == CrawlFile(".geojson", TRUE, <<Feature(ItemA)>>, <<>>)
GeoPartial == CrawlFile(".geojson", TRUE, <<Feature(ItemB), BadFeature>>, <<>>)
GeoBroken  == CrawlFile(".json", FALSE, <<>>, <<>>)
GmlGood    == CrawlFile(".gml", TRUE, <<Feature(ItemAB)>>, <<>>)
GmlBroken  == CrawlFile(".xml", FALSE, <<>>, <<>>)
TextFile   == CrawlFile(".txt", TRUE, <<>>, <<>>)
ZipGood    == CrawlFile(".zip", TRUE, <<>>, <<GeoGood, TextFile>>)
ZipPartial == CrawlFile(".zip", TRUE, <<>>, <<GeoGood, GeoBroken, GmlGood>>)
ZipBroken  == CrawlFile(".zip", FALSE, <<>>, <<>>)

CrawlPool ==
    {GeoGood, GeoPartial, GeoBroken, GmlGood, GmlBroken, TextFile, ZipGood, ZipPartial,
     ZipBroken}

\* the archives among the files, in the order of rglob("*.zip")
CrawlZips == SelectSeq(crdir, LAMBDA f : f.ext = ".zip")

\* build() has cleared the items and the counters
CrawlInit ==
    /\ crpc = "dir" /\ cri = 1 /\ critems = <<>>
    /\ crdir \in SeqsUpTo(CrawlPool, MaxCrawl)

\* one turn of `for path in self._iter_files(...)`
CrawlDirFile ==
    /\ crpc = "dir" /\ cri <= Len(crdir)
    /\ critems' = try_ingest_path(critems, crdir[cri])
    /\ cri' = cri + 1
    /\ UNCHANGED <<crpc, crdir>>
    /\ OnlyCrawl

\* the first loop is over
CrawlDirEnd ==
    /\ crpc = "dir" /\ cri > Len(crdir)
    /\ crpc' = "zip" /\ cri' = 1
    /\ UNCHANGED <<crdir, critems>>
    /\ OnlyCrawl

\* one turn of `for zpath in self._iter_zip_files(...)`
CrawlZipFile ==
    /\ crpc = "zip" /\ cri <= Len(CrawlZips)
    /\ critems' = try_ingest_zip(critems, CrawlZips[cri])
    /\ cri' = cri + 1
    /\ UNCHANGED <<crpc, crdir>>
    /\ OnlyCrawl

\* build() returns
CrawlReturn ==
    /\ crpc = "zip" /\ cri > Len(CrawlZips)
    /\ crpc' = "done" /\ cri' = 0
    /\ UNCHANGED <<crdir, critems>>
    /\ OnlyCrawl

CrawlNext == CrawlDirFile \/ CrawlDirEnd \/ CrawlZipFile \/ CrawlReturn

InitCrawl == CrawlInit /\ KeyOff /\ BatchOff /\ ServerOff /\ GmlOff /\ RebuildOff /\ InputsOff /\ ColumnsOff /\ SuffixOff /\ ReadOnlyOff /\ SearchOff

SpecCrawl == InitCrawl /\ [][CrawlNext]_vars

(***************************************************************************)
(* StopsIndexer.search called with a limit on a built indexer.             *)
(***************************************************************************)
\* items of the indexer
MaxItems == 3

\* the same name hit in the name, in the name and the line, and in the
\* prefecture
ItemPool == {ItemA, ItemAB, ItemB, StopItem(<<"A">>, <<"a">>, <<>>)}

\* the q of a request: one token, two tokens in full-width spelling, nothing but
\* a space, nothing, and a token no item holds
SearchQueries == ServerQueries \cup {<<"SP">>, <<>>, <<"c">>}

\* the items are told apart by what they hold
SearchInit ==
    /\ srpc = "idle" /\ srq = <<>> /\ srlimit = 0 /\ srhits = <<>>
    /\ sritems \in {x \in SeqsUpTo(ItemPool, MaxItems) :
                       \A i, j \in 1..Len(x) : x[i] = x[j] => i = j}

\* STOP_INDEXER.search(q, limit=limit)
SearchCall ==
    /\ srpc = "idle"
    /\ \E q \in SearchQueries, limit \in 0..MaxLimit :
         /\ srq' = q /\ srlimit' = limit
         /\ srhits' = search(sritems, q, limit)
    /\ srpc' = "called"
    /\ UNCHANGED sritems
    /\ OnlySearch

\* the response is sent
SearchDone ==
    /\ srpc = "called"
    /\ srpc' = "idle" /\ srq' = <<>> /\ srlimit' = 0 /\ srhits' = <<>>
    /\ UNCHANGED sritems
    /\ OnlySearch

SearchNext == SearchCall \/ SearchDone

InitSearch == SearchInit /\ KeyOff /\ BatchOff /\ ServerOff /\ GmlOff /\ RebuildOff /\ InputsOff /\ ColumnsOff /\ SuffixOff /\ ReadOnlyOff /\ CrawlOff

SpecSearch == InitSearch /\ [][SearchNext]_vars

(***************************************************************************)
(* Properties.                                                             *)
(***************************************************************************)
\* C1: every /api/stops response is read from one complete generation: the
\* store searched and the store the stats are taken from are the same object,
\* and a build() had run to its end on it (and none was at work on it) when it
\* was read; so no response shows an empty or partly filled store.
QueriesSeeWholeGeneration ==
    \A t \in Threads :
        (pc[t] = "done" /\ resp[t].kind = "stops") =>
            /\ resp[t].hitsComplete
            /\ resp[t].statsComplete
            /\ resp[t].hitsFrom = resp[t].statsFrom
            /\ resp[t].total = Len(FullItems)

\* two reindex requests whose executions overlap
Overlapping(t, u) ==
    /\ t # u
    /\ handler[t] = "reindex" /\ handler[u] = "reindex"
    /\ pc[t] # "idle" /\ pc[u] # "idle"
    /\ overlapped[t] \/ overlapped[u]

\* C2: when two reindex requests overlap, STOP_INDEXER refers at every moment to
\* nothing or to an indexer a build() has completed on, and once both requests
\* have answered, the active indexer holds exactly what one whole build leaves.
OverlappingReindexSafe ==
    \A t, u \in Threads :
        Overlapping(t, u) =>
            /\ STOP_INDEXER # 0 => heap[STOP_INDEXER].complete
            /\ (pc[t] = "done" /\ pc[u] = "done") =>
                  /\ heap[STOP_INDEXER].items = FullItems
                  /\ heap[STOP_INDEXER].dir_files_considered = Len(DataFiles)
                  /\ heap[STOP_INDEXER].zip_files_considered = Len(ZipFiles)

\* C3: when build() raises during a reindex request that began with a completely
\* built indexer active (and no other request has assigned STOP_INDEXER
\* meanwhile), that indexer is still the active one, with its items and counters
\* as they were.
FailedReindexKeepsStore ==
    \A t \in Threads :
        (pc[t] = "failed" /\ handler[t] = "reindex" /\ ~overlapped[t] /\ before[t].complete) =>
            /\ STOP_INDEXER = before[t].ref
            /\ heap[STOP_INDEXER].items = before[t].items
            /\ heap[STOP_INDEXER].dir_files_considered = before[t].dir
            /\ heap[STOP_INDEXER].zip_files_considered = before[t].zip

\* C4: the combined table a build has written holds at most one row for each
\* (kind, name_key, lat, lon).
CombinedTableHasNoDuplicate ==
    out.poi.present =>
        \A i, j \in 1..Len(out.poi.data) :
            i # j => DedupKey(out.poi.data[i]) # DedupKey(out.poi.data[j])

\* C5: build_key is idempotent: build_key(build_key(n)) = build_key(n)
BuildKeyIdempotent == kpc = "rekey" => kkey2 = kkey

SetOf(sq) == {sq[i] : i \in 1..Len(sq)}

MatchesExact(row, name, kind) ==
    /\ row.name_key = build_key(name)
    /\ kind = "" \/ row.kind = kind

ExactWithinSubstring ==
    lastCall.op = "find_exact" =>
        SetOf(res.idx) \subseteq SetOf(find_substring(index, lastCall.q, lastCall.kind).idx)

\* C8: with the KD-tree built, nearest(lat, lon, k) returns at most k rows, in
\* non-decreasing order of approx_m, for every k >= 1.
NearestAtMostKSorted ==
    (lastCall.op = "nearest" /\ index.kdtree) =>
        /\ res.status = "ok"
        /\ Len(res.idx) <= lastCall.n
        /\ \A i \in 1..(Len(res.approx) - 1) : res.approx[i] <= res.approx[i + 1]

\* the score of the key of the row at position p in a find_fuzzy call
ScoreOfRow(p) ==
    LET i == CHOOSE j \in 1..Len(index.names_index) :
                index.names_index[j].key = index.df[p + 1].name_key
    IN lastCall.sc[i]

\* C9: find_fuzzy(query, limit) returns at most `limit` rows, each with a key
\* scoring at least 70, and none when no key scores at least 70.
FuzzyAtMostLimit ==
    (lastCall.op = "find_fuzzy" /\ res.status = "ok") =>
        /\ Len(res.idx) <= lastCall.n
        /\ \A i \in 1..Len(res.idx) : ScoreOfRow(res.idx[i]) >= ScoreCutoff
        /\ (\A j \in 1..Len(lastCall.sc) : lastCall.sc[j] < ScoreCutoff) => res.idx = <<>>

\* the call a step makes, when it makes one
Calls(op) == lastCall.op = "" /\ lastCall'.op = op

\* C10: find_fuzzy without the similarity backend and nearest without the KD-tree
\* end in an error and return no row, and leave the loaded store and the files
\* as they were.
MissingBackendIsAnError ==
    [][ ((Calls("find_fuzzy") /\ ~index.rapidfuzz) \/ (Calls("nearest") /\ ~index.kdtree)) =>
           /\ res'.status = "RuntimeError"
           /\ res'.idx = <<>>
           /\ index' = index
           /\ out' = out ]_vars

\* a find_fuzzy without the backend, on a query the substring search answers
MissingBackendWitness ==
    /\ lastCall.op = "find_fuzzy" /\ ~index.rapidfuzz
    /\ res.status = "RuntimeError"
    /\ find_substring(index, lastCall.q, lastCall.kind).idx # <<>>


\* the Points of a document have distinct identifiers
DistinctPointIds(doc) ==
    \A i, j \in 1..Len(doc) :
        (i # j /\ doc[i].tag = "Point" /\ doc[j].tag = "Point" /\ doc[i].id # <<>>)
            => doc[i].id # doc[j].id

\* how often the record r occurs in the item list
CountOf(items, r) == Cardinality({i \in 1..Len(items) : items[i] = r})

\* the position in the document of the BusStop that gave the k-th item
NamedStop(doc, k) ==
    CHOOSE i \in 1..Len(doc) :
        /\ doc[i].tag = "BusStop" /\ doc[i].name # <<>>
        /\ Cardinality({j \in 1..i : doc[j].tag = "BusStop" /\ doc[j].name # <<>>}) = k

\* C11: with distinct Point identifiers, a document and every reordering of its
\* elements give the same records (name, lon, lat); and a BusStop that refers to
\* a Point with a well-formed pos "lat lon" gets that lat and lon, wherever the
\* Point stands.
GmlOrderIndependent ==
    (gpc = "done" /\ DistinctPointIds(gdoc)) =>
        /\ \A k \in 1..Len(gitems) : CountOf(gitems2, gitems[k]) = CountOf(gitems, gitems[k])
        /\ Len(gitems2) = Len(gitems)
        /\ \A k \in 1..Len(gitems2), p \in 1..Len(gperm) :
              ( /\ gperm[p].tag = "Point" /\ Len(gperm[p].pos) = 2
                /\ RefId(gperm[NamedStop(gperm, k)].ref) # <<>>
                /\ gperm[p].id = RefId(gperm[NamedStop(gperm, k)].ref) )
              => /\ gitems2[k].lat = gperm[p].pos[1]
                 /\ gitems2[k].lon = gperm[p].pos[2]

\* the Point with pos "35.0 139.0" stands before the BusStop in one document and
\* after it in the other, and the record has lat 35.0 and lon 139.0
GmlOrderWitness ==
    /\ gpc = "done" /\ DistinctPointIds(gdoc)
    /\ gdoc = <<Point(<<"n1">>, PosA), BusStop(<<"a">>, <<"#", "n1">>), Point(<<"n2">>, PosB)>>
    /\ gperm = <<Point(<<"n2">>, PosB), BusStop(<<"a">>, <<"#", "n1">>), Point(<<"n1">>, PosA)>>
    /\ gitems2 = <<StopAt(<<"a">>, <<139>>, <<35>>)>>


\* the BusStop e of the document has no loc reference, one without "#", or one
\* that names no Point with a pos
Unresolved(doc, e) ==
    \/ e.ref = <<>>
    \/ Head(e.ref) # "#"
    \/ ~\E i \in 1..Len(doc) :
           doc[i].tag = "Point" /\ doc[i].pos # <<>> /\ <<"#">> \o doc[i].id = e.ref

NamedStops(doc) == {i \in 1..Len(doc) : doc[i].tag = "BusStop" /\ doc[i].name # <<>>}

\* C12: every BusStop with a name gives one StopItem, in document order; one
\* whose reference is absent, has no "#" or names no collected Point is stored
\* with lon and lat both null.
GmlKeepsUnresolved ==
    gpc = "done" =>
        /\ Len(gitems) = Cardinality(NamedStops(gdoc))
        /\ \A k \in 1..Len(gitems) :
              /\ gitems[k].name = gdoc[NamedStop(gdoc, k)].name
              /\ Unresolved(gdoc, gdoc[NamedStop(gdoc, k)])
                    => (gitems[k].lon = <<>> /\ gitems[k].lat = <<>>)

\* a document with a resolved BusStop and one that refers to an unknown Point,
\* both stored
GmlUnresolvedWitness ==
    /\ gpc = "done"
    /\ \E k \in 1..Len(gitems) : gitems[k].lon # <<>>
    /\ \E k \in 1..Len(gitems) :
          /\ gdoc[NamedStop(gdoc, k)].ref = <<"#", "n9">>
          /\ gitems[k] = StopAt(<<"a">>, <<>>, <<>>)
    /\ Len(gitems) = 2 /\ Len(gdoc) = 3


\* the store the side at hand rebuilds
Store == IF rside = "server" THEN rstore ELSE btable

\* C13: when exactly one input has been added since the build before, a readable
\* input that holds a record which is no duplicate of a stored one (nothing else
\* changed, and that build ran to its end), the rebuilt store holds strictly more
\* records than the one before.
RebuildGrowsWithNewInput ==
    (rsince = "same" /\ rwas = "added" /\ rprev.current) =>
        Len(Store.items) > Len(rprev.items)

\* C14: a rebuild run over inputs that did not change since the build before
\* leaves the store as that build left it: the same records in the same order and
\* the same counters (item count, dir_files_considered, zip_files_considered);
\* nothing accumulates from one build to the next.
RebuildIdempotent ==
    (rwas = "same" /\ rprev.built) => Store = rprev

\* the server's build() has run twice over a directory with an archive in it
RebuildIdempotentWitness ==
    /\ rside = "server" /\ rwas = "same" /\ rprev.built
    /\ Len(rstore.items) > 1 /\ rstore.zip_files_considered > 0
    /\ rstore.dir_files_considered = MaxFiles

\* C15: a build that ends in the unsupported-format error of a single-file
\* specifier has read and parsed no input file by then (no frame was made), and
\* the step writes no output.
UnsupportedFailsBeforeAnyRead ==
    [][(bpc = "specs" /\ bpc' = "idle" /\ berr' = "unsupported")
          => (frames = <<>> /\ out' = out)]_vars

\* the specifier resolves to no resource: a path that is not there, or a pattern
\* that matches nothing
ResolvesToNothing(spec) ==
    spec.type = "missing" \/ (spec.type = "glob" /\ spec.entries = <<>>)

\* C16: for a specifier that resolves to no resource (a path that does not exist,
\* a pattern that matches nothing) collect_inputs fails with the missing-input
\* error; it never returns an empty list.
MissingInputIsAnError ==
    (cpc = "done" /\ ResolvesToNothing(cspec)) => (~cres.ok /\ cres.err = "missing")

\* C17: for an archive, collect_inputs returns one path for every entry whose
\* extension is in the supported set, in the order of the archive, and none for
\* any other entry.
ArchiveGivesSupportedEntries ==
    (cpc = "done" /\ cspec.type = "file" /\ cspec.entries[1].ext = ".zip") =>
        (cres.ok /\ cres.paths = FilterSupported(cspec.members))

\* the place in candidates of the earliest candidate some column equals, case
\* aside; 0 when there is none
EarliestMatch(candidates, cols) ==
    IF \E k \in 1..Len(candidates), i \in 1..Len(cols) : Lower(cols[i]) = Lower(candidates[k])
    THEN CHOOSE k \in 1..Len(candidates) :
            /\ \E i \in 1..Len(cols) : Lower(cols[i]) = Lower(candidates[k])
            /\ \A j \in 1..(k - 1) : \A i \in 1..Len(cols) : Lower(cols[i]) # Lower(candidates[j])
    ELSE 0

\* col is a column that equals, case aside, the earliest matched candidate
IsEarliest(col, candidates, cols) ==
    /\ col # <<>>
    /\ \E i \in 1..Len(cols) : cols[i] = col[1]
    /\ Lower(col[1]) = Lower(candidates[EarliestMatch(candidates, cols)])

\* the first column holding a name token, <<>> when there is none
FirstNameLike(cols) ==
    IF \E i \in 1..Len(cols) : LooksLikeName(cols[i])
    THEN <<cols[CHOOSE i \in 1..Len(cols) :
                  LooksLikeName(cols[i]) /\ \A j \in 1..(i - 1) : ~LooksLikeName(cols[j])]>>
    ELSE <<>>

\* C18: each resolver returns a column equal, case aside, to the earliest matched
\* entry of its candidate list, whatever the column order; with no candidate
\* matched the name resolver gives the first column holding a name token, or none
\* when there is no such column, and operator and line give none, stored as the
\* empty string.
ResolversFollowCandidateOrder ==
    colpc = "done" =>
        /\ IF EarliestMatch(NAME_CANDIDATES, columns) # 0
           THEN IsEarliest(colres.name_col, NAME_CANDIDATES, columns)
           ELSE colres.name_col = FirstNameLike(columns)
        /\ IF EarliestMatch(OPERATOR_CANDIDATES, columns) # 0
           THEN IsEarliest(colres.op_col, OPERATOR_CANDIDATES, columns)
           ELSE colres.op_col = <<>> /\ colres.operator = ""
        /\ IF EarliestMatch(LINE_CANDIDATES, columns) # 0
           THEN IsEarliest(colres.line_col, LINE_CANDIDATES, columns)
           ELSE colres.line_col = <<>> /\ colres.line = ""

\* a later candidate stands before an earlier one in the columns, and only a
\* name token is left for the line role (which has no fallback)
ResolversWitness ==
    /\ colpc = "done"
    /\ columns = << <<"t", "i", "t", "l", "e">>, <<"n", "A", "m", "e">>, <<"x", "n", "A", "m", "e">> >>
    /\ colres.name_col = << <<"n", "A", "m", "e">> >>
    /\ colres.line_col = <<>> /\ colres.line = ""

\* the name ends with one of the suffix tokens
EndsWithToken(name) == \E suf \in SuffixTokens : EndsWith(name, suf)

\* C19: for a base name that does not itself end with a suffix token, the key of
\* the base name followed by a suffix token is the key of the base name (so that
\* find_exact finds the same records under both).
SuffixedNameHasKeyOfBase ==
    (spc = "keys" /\ ~EndsWithToken(sbase)) => skeysuf = skey

\* C20: the record table, the name index and the item list stay as they were
\* before the queries, whether a query returned rows, returned none or raised, and
\* whatever the caller has written into a frame a POIIndex query returned.
QueriesLeaveTheStore ==
    ropc \in {"idle", "called"} => RoStore = roorig

\* the caller has written into a frame a query returned
QueriesWitness ==
    /\ ropc = "called" /\ rores.op = "find_exact" /\ rores.written
    /\ rores.rows[1].name = Scribble /\ Len(roix.df) = 3

\* C21: when a build has ended in an error, whatever the step, the four files of
\* the output directory are those the build found there, the files of the last
\* successful build: the failed build has changed none of them.
AbortKeepsOutput ==
    (bpc = "idle" /\ berr # "") => ~bwrote

\* C22: after a successful build, stations.parquet, when there is one, holds the
\* station rows of poi.parquet and busstops.parquet, when there is one, its
\* bus_stop rows.
PerKindFilesAreOfThePoi ==
    (bpc = "idle" /\ berr = "" /\ out.poi.present) =>
        /\ out.stations.present => out.stations.data = OfKind(out.poi.data, "station")
        /\ out.busstops.present => out.busstops.data = OfKind(out.poi.data, "bus_stop")

\* C23: after a successful build the persisted name index has one entry for every
\* name_key of the combined table and no other; the entry lists, strictly
\* increasing, the positions of the rows with that key, so that every position
\* 0..N-1 stands under exactly one key, no list is empty and no position lies
\* outside the table.
NameIndexIsExact ==
    (bpc = "idle" /\ berr = "" /\ out.poi.present) =>
        LET d == out.names_index.data
            t == out.poi.data
        IN /\ out.names_index.present
           /\ \A n, k \in 1..Len(d) : d[n].key = d[k].key => n = k
           /\ \A n \in 1..Len(d) :
                 /\ d[n].idxs # <<>>
                 /\ \A i \in 1..(Len(d[n].idxs) - 1) : d[n].idxs[i] < d[n].idxs[i + 1]
                 /\ \A i \in 1..Len(d[n].idxs) :
                       /\ d[n].idxs[i] >= 0 /\ d[n].idxs[i] < Len(t)
                       /\ t[d[n].idxs[i] + 1].name_key = d[n].key
           /\ \A p \in 0..(Len(t) - 1) :
                 Cardinality({n \in 1..Len(d) :
                                 \E i \in 1..Len(d[n].idxs) : d[n].idxs[i] = p}) = 1

\* a build has written a table in which one key has two rows and another key one
NameIndexWitness ==
    /\ bpc = "idle" /\ berr = "" /\ out.poi.present
    /\ Len(out.poi.data) = 3 /\ Len(out.names_index.data) = 2
    /\ Len(out.names_index.data[1].idxs) = 2

\* the items of the features of a file
AllItems(f) == [i \in 1..Len(f.feats) |-> f.feats[i].item]

\* ingesting the file (or archive entry) raises
FileFails(f) == ~f.ok \/ \E i \in 1..Len(f.feats) : f.feats[i].bad

\* ingesting the archive fails: it cannot be opened, or an entry that is read
\* raises
ZipFails(z) ==
    ~z.ok \/ \E i \in 1..Len(z.members) :
                z.members[i].ext \in INGESTED /\ FileFails(z.members[i])

RECURSIVE ItemsOfEntries(_)
ItemsOfEntries(members) ==
    IF members = <<>> THEN <<>>
    ELSE (IF Head(members).ext \in INGESTED THEN AllItems(Head(members)) ELSE <<>>)
         \o ItemsOfEntries(Tail(members))

\* the items of every file that ingests without failing, none of a file that
\* fails, in the order of the build
RECURSIVE ItemsOfReadableFiles(_)
ItemsOfReadableFiles(files) ==
    IF files = <<>> THEN <<>>
    ELSE (IF Head(files).ext \in INGESTED /\ ~FileFails(Head(files))
          THEN AllItems(Head(files)) ELSE <<>>)
         \o ItemsOfReadableFiles(Tail(files))

RECURSIVE ItemsOfReadableZips(_)
ItemsOfReadableZips(zips) ==
    IF zips = <<>> THEN <<>>
    ELSE (IF ZipFails(Head(zips)) THEN <<>> ELSE ItemsOfEntries(Head(zips).members))
         \o ItemsOfReadableZips(Tail(zips))

\* C24: when the crawler's build has ended, the store holds every record of every
\* file and archive that ingests without failing and no record of a file or
\* archive whose ingest failed.
CrawlSkipsFailedInputsWhole ==
    crpc = "done" =>
        critems = ItemsOfReadableFiles(crdir) \o ItemsOfReadableZips(CrawlZips)

\* C25: once an input of the batch build could not be read, or its name column
\* could not be found, the build is over: nothing is left to collect or read, no
\* frame is kept, and the build has changed no output file.
FailedInputEndsTheBuild ==
    berr \in {"read", "name"} =>
        /\ bpc = "idle" /\ pathq = <<>> /\ frames = <<>> /\ all_df = <<>>
        /\ ~bwrote

\* a build that had read a file stopped at a later file without a name column,
\* with the output of an earlier build in place
FailedInputWitness ==
    /\ bpc = "idle" /\ berr = "name" /\ out.poi.present

\* C26: as long as no reindex request has been made, the requests to /api/stops
\* have created at most one StopsIndexer between them, however they interleave.
EnsureCreatesOneIndexer ==
    ~reindexed => Len(heap) <= 1

\* the positions of the rows of the store that have the kind asked for
PositionsOfKind == {p \in 0..(Len(index.df) - 1) : index.df[p + 1].kind = lastCall.kind}

\* the distance (squared) of the row at position p from the point asked for
Dist2At(p) == Dist2(index.df[p + 1], lastCall.lat, lastCall.lon)

\* C27: nearest with a kind filter returns min(k, number of rows of that kind)
\* rows, all of that kind, and no row of that kind that it leaves out is nearer
\* than a row it returns.
NearestOfKindIsComplete ==
    (lastCall.op = "nearest" /\ index.kdtree /\ lastCall.kind # "") =>
        LET got == {res.idx[i] : i \in 1..Len(res.idx)}
            n   == Cardinality(PositionsOfKind)
        IN /\ res.status = "ok"
           /\ Len(res.idx) = (IF lastCall.n < n THEN lastCall.n ELSE n)
           /\ Cardinality(got) = Len(res.idx)
           /\ got \subseteq PositionsOfKind
           /\ \A p \in PositionsOfKind \ got : \A g \in got : Dist2At(p) >= Dist2At(g)

\* the tokens of the q of the last search
QueryTokens == Split(Lower(norm_text(srq)))

\* the item holds every token in its name, line or pref
HoldsEveryToken(it) ==
    \A i \in 1..Len(QueryTokens) :
        \/ Contains(Lower(it.name), QueryTokens[i])
        \/ Contains(Lower(it.line), QueryTokens[i])
        \/ Contains(Lower(it.pref), QueryTokens[i])

\* the place of an item in the indexer
PlaceOf(it) == CHOOSE i \in 1..Len(sritems) : sritems[i] = it

NameHits(it) == HitCount(QueryTokens, Lower(it.name))

PrefHits(it) == HitCount(QueryTokens, Lower(it.pref))

LineHits(it) == HitCount(QueryTokens, Lower(it.line))

\* what the search returns, whatever the order: at most limit items, each an
\* item of the indexer that holds every token; for a q with a token, all such
\* items when they are at most limit; nothing for a q that is empty once
\* normalized
SearchReturnsMatches ==
    LET all == {i \in 1..Len(sritems) : HoldsEveryToken(sritems[i])}
    IN /\ Len(srhits) <= srlimit
       /\ \A i \in 1..Len(srhits) :
             /\ \E p \in 1..Len(sritems) : sritems[p] = srhits[i]
             /\ HoldsEveryToken(srhits[i])
       /\ \A i, j \in 1..Len(srhits) : srhits[i] = srhits[j] => i = j
       /\ (norm_text(srq) # <<>> /\ Cardinality(all) <= srlimit) =>
             \A p \in all : \E i \in 1..Len(srhits) : srhits[i] = sritems[p]
       /\ norm_text(srq) = <<>> => srhits = <<>>

\* C28 (as stated): search returns the matches, ordered by non-increasing count
\* of tokens found in the name, items with the same count in index order.
SearchOrderedByNameHits ==
    srpc = "called" =>
        /\ SearchReturnsMatches
        /\ \A i, j \in 1..Len(srhits) : i < j =>
              \/ NameHits(srhits[i]) > NameHits(srhits[j])
              \/ /\ NameHits(srhits[i]) = NameHits(srhits[j])
                 /\ PlaceOf(srhits[i]) < PlaceOf(srhits[j])

\* C28: search returns the matches, ordered by non-increasing count of tokens
\* found in the name, then in the pref, then in the line; items with the same
\* three counts are in index order.
SearchOrderedByHits ==
    srpc = "called" =>
        /\ SearchReturnsMatches
        /\ \A i, j \in 1..Len(srhits) : i < j =>
              LET a == srhits[i]
                  b == srhits[j]
              IN \/ NameHits(a) > NameHits(b)
                 \/ NameHits(a) = NameHits(b) /\ PrefHits(a) > PrefHits(b)
                 \/ /\ NameHits(a) = NameHits(b) /\ PrefHits(a) = PrefHits(b)
                    /\ LineHits(a) > LineHits(b)
                 \/ /\ NameHits(a) = NameHits(b) /\ PrefHits(a) = PrefHits(b)
                    /\ LineHits(a) = LineHits(b)
                    /\ PlaceOf(a) < PlaceOf(b)

\* two items with the same count in the name come back against index order
SearchOrderedWitness ==
    /\ srpc = "called" /\ Len(srhits) = 2
    /\ NameHits(srhits[1]) = NameHits(srhits[2])
    /\ PlaceOf(srhits[1]) > PlaceOf(srhits[2])

=============================================================================
